---------------------------- MODULE Spec2Model ----------------------------
(***************************************************************************)
(* Signal scoring and weekly trend aggregation of the money-radar API      *)
(* (apps/money-radar/api/ukmppr): signal_scoring.py, llm_signal_scoring.py,*)
(* score_signals.py and trends.py.                                         *)
(*                                                                         *)
(* Numbers.  A Python float score s is held as the integer 100 * s         *)
(* (hundredths): 0.35 is 35, 1.0 is 100, 5 is 500.  The only sums the rule *)
(* scorer forms are sums of 0.35, 0.35, 0.2, 0.2; in IEEE doubles they are *)
(* 0.0, 0.2, 0.35, 0.4, 0.55, 0.7, 0.75, 0.8999999999999999 (for 0.9) and  *)
(* 1.0999999999999999 (for 1.1, capped to exactly 1.0), so every           *)
(* comparison the code makes with 0, with 1 and with a threshold that is   *)
(* not 0.9 has the same outcome on hundredths; a threshold of 0.9 is only  *)
(* ever compared with a sum of 0.9 when is_question is true, where the     *)
(* comparison does not decide.  NaN is a value of its own that fails every *)
(* ordered comparison.                                                     *)
(*                                                                         *)
(* Text.  A text is a sequence of tokens, each standing for a substring    *)
(* that one of the scorer's regular expressions does or does not match.    *)
(***************************************************************************)
EXTENDS Integers, Sequences, FiniteSets, TLC

VARIABLES
    \* ---- a single call of the scorers (SpecRules, SpecLLM)
    arg_text,       \* the text handed to the scorer
    arg_response,   \* what call_llm returns for it
    ret,            \* the call's outcome: a SignalResult, or an exception
    pc,             \* "ready" before the call, then the function called
    groq,           \* the call_llm call score_text_llm is waiting for
    \* ---- the database and the score_signals job (Spec)
    posts,          \* the posts table
    comments,       \* the comments table
    signals,        \* the signals table, as committed
    now,            \* the clock: now() of the latest transaction
    job,            \* the running score_signals call and its transaction
    returned,       \* what the last finished score_signals call returned
    last,           \* the loop iteration score_signals ran last
    \* ---- the trend tables and the compute_weekly_trends call (SpecTrends)
    clusters,            \* the clusters table
    cluster_membership,  \* the cluster_membership table
    weekly_theme_stats,  \* the weekly_theme_stats table, as committed
    today,               \* the calendar day of NOW(), in days; day 0 is a Monday
    trend,               \* the compute_weekly_trends call of each caller
    trends_returned,     \* what each caller's last finished call returned
    query,               \* the last get_trending_themes call and its result
    \* ---- score_signals calls running side by side (SpecConcurrent)
    tx                   \* the score_signals transaction of each caller

callvars == <<arg_text, arg_response, ret, pc, groq>>
dbvars == <<posts, comments, signals, now, job, returned, last>>
trendvars == <<clusters, cluster_membership, weekly_theme_stats, today, trend,
               trends_returned, query>>
vars == <<arg_text, arg_response, ret, pc, groq, posts, comments, signals, now,
          job, returned, last, clusters, cluster_membership,
          weekly_theme_stats, today, trend, trends_returned, query, tx>>

(***************************************************************************)
(* Bounds                                                                  *)
(***************************************************************************)
MaxTextLen == 3
MaxRuns == 2
MaxLimit == 2
MaxTicks == 1

(***************************************************************************)
(* Text                                                                    *)
(***************************************************************************)
\* "?" a question mark; "how" an interrogative word; "which bank" matches
\* both the interrogative \bwhich\b and _RECOMMEND_PAT; "worth it" matches
\* _RECOMMEND_PAT only; "fee" _COST_PAT; "monzo" _PLATFORM_PAT; "walk" none;
\* " " is whitespace.
Tokens == {"?", "how", "which bank", "worth it", "fee", "monzo", "walk", " "}

InterrogativeTokens == {"how", "which bank"}
_RECOMMEND_PAT == {"which bank", "worth it"}
_COST_PAT == {"fee"}
_PLATFORM_PAT == {"monzo"}

\* str | None
None == [none |-> TRUE, s |-> <<>>]
Some(s) == [none |-> FALSE, s |-> s]

SeqsUpTo(S, n) == UNION {[1..k -> S] : k \in 0..n}

\* re.search(pattern, s): some token of s matches
Search(pattern, s) == \E i \in 1..Len(s) : s[i] \in pattern

RECURSIVE LStrip(_)
LStrip(s) == IF s # <<>> /\ Head(s) = " " THEN LStrip(Tail(s)) ELSE s

RECURSIVE RStrip(_)
RStrip(s) ==
    IF s # <<>> /\ s[Len(s)] = " " THEN RStrip(SubSeq(s, 1, Len(s) - 1)) ELSE s

\* str.strip()
Strip(s) == RStrip(LStrip(s))

(***************************************************************************)
(* signal_scoring.py                                                       *)
(***************************************************************************)
NaN == 0 - 999999

SignalResult(q, r, c, p, score, kw) ==
    [is_question |-> q, asks_recommendation |-> r, mentions_cost |-> c,
     mentions_platform |-> p, signal_score |-> score, detected_keywords |-> kw]

\* the detected list: one label per true flag, in this order
Detected(q, r, c, p) ==
    (IF q THEN <<"question">> ELSE <<>>)
    \o (IF r THEN <<"recommendation">> ELSE <<>>)
    \o (IF c THEN <<"cost">> ELSE <<>>)
    \o (IF p THEN <<"platform">> ELSE <<>>)

Min(a, b) == IF a <= b THEN a ELSE b

W_question == 35
W_recommendation == 35
W_cost == 20
W_platform == 20
ScoreCap == 100

\* mutant: the sum without the cap
AdditiveScore_NoCap(q, r, c, p) ==
    (IF q THEN W_question ELSE 0) + (IF r THEN W_recommendation ELSE 0)
    + (IF c THEN W_cost ELSE 0) + (IF p THEN W_platform ELSE 0)

\* score = 0.0; score += ...; score = min(1.0, score)
AdditiveScore(q, r, c, p) ==
    Min(ScoreCap,
        (IF q THEN W_question ELSE 0) + (IF r THEN W_recommendation ELSE 0)
        + (IF c THEN W_cost ELSE 0) + (IF p THEN W_platform ELSE 0))

score_text(text) ==
    IF text.none \/ text.s = <<>>
    THEN SignalResult(FALSE, FALSE, FALSE, FALSE, 0, <<>>)
    ELSE LET norm == Strip(text.s)
             is_question == Search({"?"}, norm) \/ Search(InterrogativeTokens, norm)
             asks_recommendation == Search(_RECOMMEND_PAT, norm)
             mentions_cost == Search(_COST_PAT, norm)
             mentions_platform == Search(_PLATFORM_PAT, norm)
         IN  SignalResult(is_question, asks_recommendation, mentions_cost,
                          mentions_platform,
                          AdditiveScore(is_question, asks_recommendation,
                                        mentions_cost, mentions_platform),
                          Detected(is_question, asks_recommendation,
                                   mentions_cost, mentions_platform))

\* no call made yet
NoRet == [raised |-> FALSE, value |-> SignalResult(FALSE, FALSE, FALSE, FALSE, 0, <<>>)]

\* imported by llm_signal_scoring.py from signal_scoring, which does not
\* define it: the additive weights and cap of the rule scorer
score_from_flags(q, r, c, p) ==
    Min(100, (IF q THEN 35 ELSE 0) + (IF r THEN 35 ELSE 0)
             + (IF c THEN 20 ELSE 0) + (IF p THEN 20 ELSE 0))

(***************************************************************************)
(* JSON values of a provider response                                      *)
(***************************************************************************)
\* t: "absent" (no such key), "null", "bool", "num" (b unused, n in
\* hundredths), "nan" (the literal NaN), "huge" (an integer literal too large
\* for a double), "str", "list" (of strings)
JVal(t, b, n, s, l) == [t |-> t, b |-> b, n |-> n, s |-> s, l |-> l]
JAbsent == JVal("absent", FALSE, 0, "", <<>>)
JNull == JVal("null", FALSE, 0, "", <<>>)
JBool(b) == JVal("bool", b, 0, "", <<>>)
JNum(n) == JVal("num", FALSE, n, "", <<>>)
JNaN == JVal("nan", FALSE, 0, "", <<>>)
JHuge == JVal("huge", FALSE, 0, "", <<>>)
JStr(s) == JVal("str", FALSE, 0, s, <<>>)
JList(l) == JVal("list", FALSE, 0, "", l)

\* s.strip().lower() of the strings a response is given here
StripLower(s) ==
    CASE s = " True " -> "true"
      [] s = "YES" -> "yes"
      [] OTHER -> s

\* float(s) of a string: [ok, v]; ok is FALSE for ValueError
FloatOfStr(s) ==
    CASE s = "0.5" -> [ok |-> TRUE, v |-> 50]
      [] s = "1" -> [ok |-> TRUE, v |-> 100]
      [] s = "7" -> [ok |-> TRUE, v |-> 700]
      [] s = "nan" -> [ok |-> TRUE, v |-> NaN]
      [] OTHER -> [ok |-> FALSE, v |-> 0]

\* re.split(r"[,\n]", s), each part stripped, empty parts dropped
SplitKeywords(s) ==
    CASE s = "fees, isa" -> <<"fees", "isa">>
      [] s = " , " -> <<>>
      [] s = "" -> <<>>
      [] OTHER -> <<s>>

\* What call_llm returns.  kind "none": None (HTTP error, timeout, transport
\* error, retries exhausted); "text": a string with no {...} in it (also the
\* empty string); "badjson": a {...} that json.loads rejects; "object": a JSON
\* object, with the value of each key the parser reads and whether it has
\* any other key.
Response(kind, q, r, c, p, score, kw, extra) ==
    [kind |-> kind, is_question |-> q, asks_recommendation |-> r,
     mentions_cost |-> c, mentions_platform |-> p, signal_score |-> score,
     detected_keywords |-> kw, extra |-> extra]
Object(q, r, c, p, score, kw, extra) == Response("object", q, r, c, p, score, kw, extra)
NoObject(kind) ==
    Response(kind, JAbsent, JAbsent, JAbsent, JAbsent, JAbsent, JAbsent, FALSE)
ProviderNone == NoObject("none")
NotJson == NoObject("text")
BadJson == NoObject("badjson")
EmptyObject == Object(JAbsent, JAbsent, JAbsent, JAbsent, JAbsent, JAbsent, FALSE)

(***************************************************************************)
(* llm_signal_scoring.py                                                   *)
(***************************************************************************)
\* dict | None: [some, d]
_extract_json(response) ==
    IF response.kind = "object"
    THEN [some |-> TRUE, d |-> response]
    ELSE [some |-> FALSE, d |-> response]

\* `not payload`: None, or the empty dict
IsEmptyDict(d) ==
    /\ ~d.extra
    /\ \A v \in {d.is_question, d.asks_recommendation, d.mentions_cost,
                 d.mentions_platform, d.signal_score, d.detected_keywords} :
          v.t = "absent"

TruthyStrings == {"true", "yes", "y", "1"}

_coerce_bool(value) ==
    CASE value.t = "bool" -> value.b
      [] value.t = "num" -> value.n # 0
      [] value.t \in {"nan", "huge"} -> TRUE
      [] value.t = "str" -> StripLower(value.s) \in TruthyStrings
      [] OTHER -> FALSE

\* mutant: "cost" appended before "recommendation"
_keywords_from_flags_CostFirst(q, r, c, p) ==
    (IF q THEN <<"question">> ELSE <<>>)
    \o (IF c THEN <<"cost">> ELSE <<>>)
    \o (IF r THEN <<"recommendation">> ELSE <<>>)
    \o (IF p THEN <<"platform">> ELSE <<>>)

_keywords_from_flags(q, r, c, p) ==
    (IF q THEN <<"question">> ELSE <<>>)
    \o (IF r THEN <<"recommendation">> ELSE <<>>)
    \o (IF c THEN <<"cost">> ELSE <<>>)
    \o (IF p THEN <<"platform">> ELSE <<>>)

\* [str(k) for k in keywords if k]
RECURSIVE DropEmpty(_)
DropEmpty(l) ==
    IF l = <<>> THEN <<>>
    ELSE (IF Head(l) = "" THEN <<>> ELSE <<Head(l)>>) \o DropEmpty(Tail(l))

NormalizeKeywords(value) ==
    CASE value.t = "str" -> DropEmpty(SplitKeywords(value.s))
      [] value.t = "list" -> DropEmpty(value.l)
      [] OTHER -> <<>>

\* float(signal_score): "ok" with v, "error" for TypeError and ValueError
\* (caught), "overflow" for OverflowError (not caught)
Float(value) ==
    CASE value.t = "num" -> [r |-> "ok", v |-> value.n]
      [] value.t = "bool" -> [r |-> "ok", v |-> IF value.b THEN 100 ELSE 0]
      [] value.t = "nan" -> [r |-> "ok", v |-> NaN]
      [] value.t = "huge" -> [r |-> "overflow", v |-> 0]
      [] value.t = "str" ->
            IF FloatOfStr(value.s).ok
            THEN [r |-> "ok", v |-> FloatOfStr(value.s).v]
            ELSE [r |-> "error", v |-> 0]
      [] OTHER -> [r |-> "error", v |-> 0]

\* a < b and a > b of two floats: false when either is NaN
FLt(a, b) == a # NaN /\ b # NaN /\ a < b
FGt(a, b) == a # NaN /\ b # NaN /\ a > b

\* signal_score < 0 or signal_score > 1
OutOfRange(score) == FLt(score, 0) \/ FGt(score, 100)

\* mutant: an out-of-range score is clamped to [0,1], a missing or
\* non-numeric one is 0, instead of the score recomputed from the flags
_normalize_payload_Clamp(data) ==
    LET is_question == _coerce_bool(data.is_question)
        asks_recommendation == _coerce_bool(data.asks_recommendation)
        mentions_cost == _coerce_bool(data.mentions_cost)
        mentions_platform == _coerce_bool(data.mentions_platform)
        keywords == NormalizeKeywords(data.detected_keywords)
        f == Float(data.signal_score)
        signal_score == IF f.r = "ok" THEN f.v ELSE 0
    IN  [raised |-> f.r = "overflow",
         payload |->
            SignalResult(is_question, asks_recommendation, mentions_cost,
                         mentions_platform,
                         IF FLt(signal_score, 0) THEN 0
                         ELSE IF FGt(signal_score, 100) THEN 100
                         ELSE signal_score,
                         IF keywords = <<>>
                         THEN _keywords_from_flags(is_question, asks_recommendation,
                                                   mentions_cost, mentions_platform)
                         ELSE keywords)]

\* [raised, payload]: raised when float() raises OverflowError
_normalize_payload(data) ==
    LET is_question == _coerce_bool(data.is_question)
        asks_recommendation == _coerce_bool(data.asks_recommendation)
        mentions_cost == _coerce_bool(data.mentions_cost)
        mentions_platform == _coerce_bool(data.mentions_platform)
        keywords == NormalizeKeywords(data.detected_keywords)
        computed_score == score_from_flags(is_question, asks_recommendation,
                                           mentions_cost, mentions_platform)
        f == Float(data.signal_score)
        signal_score == IF f.r = "ok" THEN f.v ELSE computed_score
    IN  [raised |-> f.r = "overflow",
         payload |->
            SignalResult(is_question, asks_recommendation, mentions_cost,
                         mentions_platform,
                         IF OutOfRange(signal_score) THEN computed_score
                                                     ELSE signal_score,
                         IF keywords = <<>>
                         THEN _keywords_from_flags(is_question, asks_recommendation,
                                                   mentions_cost, mentions_platform)
                         ELSE keywords)]

\* mutant: the bounds checked as "not < 0 and not > 1", which NaN passes
LLMSignalResponse_NaNPasses(normalized) ==
    ~FLt(normalized.signal_score, 0) /\ ~FGt(normalized.signal_score, 100)

\* LLMSignalResponse(**normalized): signal_score: float = Field(ge=0.0, le=1.0)
\* rejects what is not >= 0 and <= 1, NaN included; the flags are bools and
\* the keywords strings by then
LLMSignalResponse(normalized) ==
    normalized.signal_score # NaN
    /\ normalized.signal_score >= 0 /\ normalized.signal_score <= 100

\* SignalResult | None, or the exception: [r, v] with r "some", "none", "raised"
parse_llm_signal_response(response) ==
    LET payload == _extract_json(response)
        zero == SignalResult(FALSE, FALSE, FALSE, FALSE, 0, <<>>)
    IN  IF ~payload.some \/ IsEmptyDict(payload.d)
        THEN [r |-> "none", v |-> zero]
        ELSE LET n == _normalize_payload(payload.d)
             IN  IF n.raised THEN [r |-> "raised", v |-> zero]
                 ELSE IF LLMSignalResponse(n.payload)
                      THEN [r |-> "some", v |-> n.payload]
                      ELSE [r |-> "none", v |-> zero]

\* whether score_text_llm reaches call_llm
CallsLLM(text) == ~(text.none \/ text.s = <<>> \/ Strip(text.s) = <<>>)

\* mutant: a parse failure returns the empty result, not the rule result
score_text_llm_NoFallback(text, response) ==
    IF ~CallsLLM(text)
    THEN [raised |-> FALSE, value |-> score_text(text)]
    ELSE LET parsed == parse_llm_signal_response(response)
         IN  CASE parsed.r = "some" -> [raised |-> FALSE, value |-> parsed.v]
               [] parsed.r = "raised" -> [raised |-> TRUE, value |-> parsed.v]
               [] OTHER -> [raised |-> FALSE, value |-> score_text(None)]

\* [raised, value]: the SignalResult returned, or the OverflowError raised
score_text_llm(text, response) ==
    IF ~CallsLLM(text)
    THEN [raised |-> FALSE, value |-> score_text(text)]
    ELSE LET parsed == parse_llm_signal_response(response)
         IN  CASE parsed.r = "some" -> [raised |-> FALSE, value |-> parsed.v]
               [] parsed.r = "raised" -> [raised |-> TRUE, value |-> parsed.v]
               [] OTHER -> [raised |-> FALSE, value |-> score_text(text)]

(***************************************************************************)
(* score_signals.py                                                        *)
(***************************************************************************)
\* [raised, value, entered_llm, called_llm]: what _score_text_with_method
\* returns or raises (ValueError for an unsupported method, or what
\* score_text_llm raises), whether it called score_text_llm and whether that
\* call reached call_llm
Outcome(raised, value, entered_llm, called_llm) ==
    [raised |-> raised, value |-> value, entered_llm |-> entered_llm,
     called_llm |-> called_llm]

ViaLLM(text_body, response) ==
    Outcome(score_text_llm(text_body, response).raised,
            score_text_llm(text_body, response).value,
            TRUE, CallsLLM(text_body))

\* mutant: hybrid mode decides on the score alone
_score_text_with_method_ScoreOnly(text_body, method, hybrid_min_score, response) ==
    CASE method = "rules" -> Outcome(FALSE, score_text(text_body), FALSE, FALSE)
      [] method = "llm" -> ViaLLM(text_body, response)
      [] method = "hybrid" ->
            LET rule_result == score_text(text_body)
            IN  IF rule_result.signal_score >= hybrid_min_score
                THEN Outcome(FALSE, rule_result, FALSE, FALSE)
                ELSE ViaLLM(text_body, response)
      [] OTHER -> Outcome(TRUE, score_text(None), FALSE, FALSE)

\* mutant: the threshold compared with > instead of >=
_score_text_with_method_Above(text_body, method, hybrid_min_score, response) ==
    CASE method = "rules" -> Outcome(FALSE, score_text(text_body), FALSE, FALSE)
      [] method = "llm" -> ViaLLM(text_body, response)
      [] method = "hybrid" ->
            LET rule_result == score_text(text_body)
            IN  IF \/ rule_result.signal_score > hybrid_min_score
                   \/ rule_result.is_question
                   \/ rule_result.asks_recommendation
                THEN Outcome(FALSE, rule_result, FALSE, FALSE)
                ELSE ViaLLM(text_body, response)
      [] OTHER -> Outcome(TRUE, score_text(None), FALSE, FALSE)

\* mutant: hybrid mode keeps a rule result that has any flag
_score_text_with_method_AnyFlag(text_body, method, hybrid_min_score, response) ==
    CASE method = "rules" -> Outcome(FALSE, score_text(text_body), FALSE, FALSE)
      [] method = "llm" -> ViaLLM(text_body, response)
      [] method = "hybrid" ->
            LET rule_result == score_text(text_body)
            IN  IF \/ rule_result.signal_score >= hybrid_min_score
                   \/ rule_result.is_question
                   \/ rule_result.asks_recommendation
                   \/ rule_result.mentions_cost
                   \/ rule_result.mentions_platform
                THEN Outcome(FALSE, rule_result, FALSE, FALSE)
                ELSE ViaLLM(text_body, response)
      [] OTHER -> Outcome(TRUE, score_text(None), FALSE, FALSE)

_score_text_with_method(text_body, method, hybrid_min_score, response) ==
    CASE method = "rules" -> Outcome(FALSE, score_text(text_body), FALSE, FALSE)
      [] method = "llm" -> ViaLLM(text_body, response)
      [] method = "hybrid" ->
            LET rule_result == score_text(text_body)
            IN  IF \/ rule_result.signal_score >= hybrid_min_score
                   \/ rule_result.is_question
                   \/ rule_result.asks_recommendation
                THEN Outcome(FALSE, rule_result, FALSE, FALSE)
                ELSE ViaLLM(text_body, response)
      [] OTHER -> Outcome(TRUE, score_text(None), FALSE, FALSE)

\* a row of the signals table
SignalRow(content_type, content_id, post_id, result, at) ==
    [content_type |-> content_type, content_id |-> content_id, post_id |-> post_id,
     is_question |-> result.is_question,
     asks_recommendation |-> result.asks_recommendation,
     mentions_cost |-> result.mentions_cost,
     mentions_platform |-> result.mentions_platform,
     signal_score |-> result.signal_score,
     detected_keywords |-> result.detected_keywords,
     collected_at |-> at]

\* the rows of `table` with primary key (content_type, content_id)
RowsOf(table, content_type, content_id) ==
    {s \in table : s.content_type = content_type /\ s.content_id = content_id}

\* mutant: DO UPDATE SET without collected_at=now()
_upsert_signal_KeepsTimestamp(table, content_type, content_id, post_id, result, at) ==
    LET hit == RowsOf(table, content_type, content_id)
    IN  IF hit = {}
        THEN table \cup {SignalRow(content_type, content_id, post_id, result, at)}
        ELSE (table \ hit)
             \cup {SignalRow(content_type, content_id, s.post_id, result,
                             s.collected_at) : s \in hit}

\* mutant: DO UPDATE SET without signal_score=EXCLUDED.signal_score
_upsert_signal_KeepsScore(table, content_type, content_id, post_id, result, at) ==
    LET hit == RowsOf(table, content_type, content_id)
    IN  IF hit = {}
        THEN table \cup {SignalRow(content_type, content_id, post_id, result, at)}
        ELSE (table \ hit)
             \cup {[SignalRow(content_type, content_id, s.post_id, result, at)
                       EXCEPT !.signal_score = s.signal_score] : s \in hit}

\* INSERT ... ON CONFLICT (content_type, content_id) DO UPDATE SET ...,
\* collected_at=now(); `at` is now() of the transaction
_upsert_signal(table, content_type, content_id, post_id, result, at) ==
    LET hit == RowsOf(table, content_type, content_id)
    IN  IF hit = {}
        THEN table \cup {SignalRow(content_type, content_id, post_id, result, at)}
        ELSE (table \ hit)
             \cup {SignalRow(content_type, content_id, s.post_id, result, at) : s \in hit}

\* created_utc of a row whose column is NULL
NullTime == 0 - 1
\* a nullable number column: NULL, or the value v
SqlNull == [null |-> TRUE, v |-> 0]
SqlVal(v) == [null |-> FALSE, v |-> v]

\* ORDER BY created_utc DESC NULLS LAST: a before b
Before(a, b) ==
    \/ a.created_utc # NullTime /\ b.created_utc = NullTime
    \/ a.created_utc # NullTime /\ b.created_utc # NullTime
       /\ a.created_utc > b.created_utc

\* the orders ORDER BY may return the rows of S in
Ordered(S) ==
    {q \in [1..Cardinality(S) -> S] :
        /\ \A i, j \in 1..Cardinality(S) : i # j => q[i] # q[j]
        /\ \A i, j \in 1..Cardinality(S) : i < j => ~Before(q[j], q[i])}

\* LIMIT n
Limit(q, n) == SubSeq(q, 1, Min(n, Len(q)))

\* COALESCE(p.title,'') || '\n\n' || COALESCE(p.body,'')
Combined(p) ==
    Some((IF p.title.none THEN <<>> ELSE p.title.s) \o <<" ">>
         \o (IF p.body.none THEN <<>> ELSE p.body.s))

\* mutant: the NOT EXISTS clause left out whatever force is
SelectPosts_NoFilter(post_table, table, subreddit, force) ==
    {p \in post_table : p.subreddit = subreddit}

\* the posts SELECT: the rows a run over `subreddit` may fetch
SelectPosts(post_table, table, subreddit, force) ==
    {p \in post_table :
        /\ p.subreddit = subreddit
        /\ force \/ RowsOf(table, "post", p.post_id) = {}}

\* the comments SELECT (JOIN posts p ON p.post_id=c.post_id)
SelectComments(post_table, comment_table, table, subreddit, force) ==
    {c \in comment_table :
        /\ \E p \in post_table : p.post_id = c.post_id /\ p.subreddit = subreddit
        /\ force \/ RowsOf(table, "comment", c.comment_id) = {}}

(***************************************************************************)
(* The score_signals job over a database of two posts and two comments.    *)
(* The post and the comment "a" share their id.                            *)
(***************************************************************************)
Post(post_id, subreddit, title, body, created_utc, score) ==
    [post_id |-> post_id, subreddit |-> subreddit, title |-> title,
     body |-> body, created_utc |-> created_utc, score |-> score]
Comment(comment_id, post_id, body, created_utc) ==
    [comment_id |-> comment_id, post_id |-> post_id, body |-> body,
     created_utc |-> created_utc]

PostRows ==
    {Post("a", "ukpf", Some(<<"which bank", "?">>), Some(<<"fee", "monzo">>), 3,
          SqlVal(12)),
     Post("b", "ukpf", Some(<<"walk">>), None, NullTime, SqlNull),
     Post("z", "other", Some(<<"how">>), Some(<<"fee">>), 4, SqlVal(0 - 2))}
CommentRows ==
    {Comment("a", "a", Some(<<"how">>), 5),
     Comment("c", "b", Some(<<"fee", "monzo">>), 2),
     Comment("n", "b", None, NullTime),
     Comment("y", "z", Some(<<"walk">>), 6)}

\* {"signal_score": 5}
ScoreFive ==
    Object(JAbsent, JAbsent, JAbsent, JAbsent, JNum(500), JAbsent, FALSE)
\* {"is_question": true, "asks_recommendation": false, "mentions_cost": false,
\*  "mentions_platform": false, "signal_score": 0.8, "detected_keywords": ["isa"]}
ValidObject ==
    Object(JBool(TRUE), JBool(FALSE), JBool(FALSE), JBool(FALSE), JNum(80),
           JList(<<"isa">>), FALSE)
\* {"is_question": true, "signal_score": NaN}
NaNScore == Object(JBool(TRUE), JAbsent, JAbsent, JAbsent, JNaN, JAbsent, FALSE)
\* {"signal_score": 1000...0} of more than 308 digits
HugeScore == Object(JAbsent, JAbsent, JAbsent, JAbsent, JHuge, JAbsent, FALSE)

JobResponses == {ProviderNone, NotJson, ScoreFive, ValidObject, NaNScore, HugeScore}

Subreddits == {"ukpf"}
Scopes == {"posts", "comments", "both"}
Methods == {"rules", "llm", "hybrid", "bogus"}
HybridMins == {0 - 10, 0, 20, 90}
Limits == 1..MaxLimit

Idle ==
    [phase |-> "idle", subreddit |-> "", scope |-> "", limit_comments |-> 0,
     force |-> FALSE, method |-> "", hybrid_min_score |-> 0, rows |-> <<>>,
     view |-> {}, at |-> 0, posts_scored |-> 0, comments_scored |-> 0]
NoResult == [raised |-> "", posts_scored |-> 0, comments_scored |-> 0]
NoLast ==
    [set |-> FALSE, content_type |-> "", content_id |-> "", text |-> None,
     force |-> FALSE, method |-> "", hybrid_min_score |-> 0, at |-> 0,
     had_row |-> FALSE, response |-> ProviderNone,
     outcome |-> Outcome(FALSE, score_text(None), FALSE, FALSE)]

DbIdle ==
    /\ posts = PostRows
    /\ comments = CommentRows
    /\ signals = {}
    /\ now = 0
    /\ job = Idle
    /\ returned = NoResult
    /\ last = NoLast

\* the callers of compute_weekly_trends (the CLI and the API process)
Callers == {"c1", "c2"}
\* no trend tables, no compute_weekly_trends call.  A call keeps
\* lookback_weeks, the day and time of its transaction and the rows its
\* INSERT wrote.
TrendIdle ==
    [phase |-> "idle", lookback_weeks |-> 0, day |-> 0, at |-> 0,
     written |-> {}, rows_inserted |-> 0]
NoTrendsResult == [raised |-> FALSE, weeks_computed |-> 0, rows_inserted |-> 0]
\* no get_trending_themes call yet
NoQuery ==
    [fn |-> "", weeks |-> 0, min_docs |-> 0, limit |-> 0, day |-> 0,
     table |-> {}, returned |-> <<>>]
\* no call_llm call
GroqIdle ==
    [phase |-> "idle", attempt |-> 0, requests |-> <<>>, waits |-> <<>>,
     result |-> ProviderNone]
\* a score_signals call that has not begun.  A call keeps the results it
\* passed to _upsert_signal and the callers whose transaction was open when
\* its own began.
TxIdle ==
    [phase |-> "idle", force |-> FALSE, method |-> "", at |-> 0, rows |-> <<>>,
     writes |-> {}, results |-> {}, met |-> {}, posts_scored |-> 0]
NoTrends ==
    /\ tx = [c \in Callers |-> TxIdle]
    /\ query = NoQuery
    /\ groq = GroqIdle
    /\ clusters = {}
    /\ cluster_membership = {}
    /\ weekly_theme_stats = {}
    /\ today = 0
    /\ trend = [c \in Callers |-> TrendIdle]
    /\ trends_returned = [c \in Callers |-> NoTrendsResult]

Init ==
    /\ arg_text = None
    /\ arg_response = ProviderNone
    /\ ret = NoRet
    /\ pc = "job"
    /\ DbIdle
    /\ NoTrends

\* the candidates of the comments SELECT as the rows the loop reads
CommentCandidates(j, table) ==
    {Limit(q, j.limit_comments) :
        q \in Ordered(SelectComments(posts, comments, table, j.subreddit, j.force))}

\* score_signals(...): `with engine.begin() as conn`, then the first SELECT
ScoreSignals ==
    /\ job.phase = "idle"
    /\ now < MaxRuns
    /\ \E subreddit \in Subreddits, scope \in Scopes, limit_posts \in Limits,
          limit_comments \in Limits, force \in BOOLEAN, method \in Methods,
          hybrid_min_score \in HybridMins :
          LET j == [Idle EXCEPT !.subreddit = subreddit, !.scope = scope,
                                !.limit_comments = limit_comments,
                                !.force = force, !.method = method,
                                !.hybrid_min_score = hybrid_min_score,
                                !.view = signals, !.at = now + 1]
          IN  \/ /\ scope \in {"posts", "both"}
                 /\ \E q \in Ordered(SelectPosts(posts, signals, subreddit, force)) :
                       job' = [j EXCEPT !.phase = "posts",
                                        !.rows = Limit(q, limit_posts)]
              \/ /\ scope = "comments"
                 /\ \E rows \in CommentCandidates(j, signals) :
                       job' = [j EXCEPT !.phase = "comments", !.rows = rows]
    /\ now' = now + 1
    /\ returned' = NoResult
    /\ last' = NoLast
    /\ UNCHANGED <<posts, comments, signals>>
    /\ UNCHANGED <<callvars, trendvars, tx>>

\* one iteration of either loop over the row (content_type, content_id,
\* post_id, text): _score_text_with_method, _upsert_signal, the counter
Iteration(content_type, content_id, post_id, text) ==
    \E response \in JobResponses :
        LET o == _score_text_with_method(text, job.method, job.hybrid_min_score,
                                         response)
        IN  /\ o.called_llm \/ response = ProviderNone
            /\ last' = [set |-> TRUE, content_type |-> content_type,
                        content_id |-> content_id, text |-> text,
                        force |-> job.force, method |-> job.method,
                        hybrid_min_score |-> job.hybrid_min_score, at |-> job.at,
                        had_row |-> RowsOf(job.view, content_type, content_id) # {},
                        response |-> response, outcome |-> o]
            /\ IF o.raised
               THEN \* the exception leaves the with block: rollback
                    /\ job' = Idle
                    /\ returned' = [NoResult EXCEPT !.raised = "scoring"]
               ELSE /\ job' = [job EXCEPT
                          !.view = _upsert_signal(job.view, content_type, content_id,
                                                  post_id, o.value, job.at),
                          !.rows = Tail(job.rows),
                          !.posts_scored =
                              @ + (IF content_type = "post" THEN 1 ELSE 0),
                          !.comments_scored =
                              @ + (IF content_type = "comment" THEN 1 ELSE 0)]
                    /\ UNCHANGED returned
            /\ UNCHANGED <<posts, comments, signals, now>>
            /\ UNCHANGED <<callvars, trendvars, tx>>

ScorePost ==
    /\ job.phase = "posts"
    /\ job.rows # <<>>
    /\ Iteration("post", Head(job.rows).post_id, Head(job.rows).post_id,
                 Combined(Head(job.rows)))

\* the second SELECT, after the posts loop
FetchComments ==
    /\ job.phase = "posts"
    /\ job.rows = <<>>
    /\ job.scope = "both"
    /\ \E rows \in CommentCandidates(job, job.view) :
          job' = [job EXCEPT !.phase = "comments", !.rows = rows]
    /\ UNCHANGED <<posts, comments, signals, now, returned, last>>
    /\ UNCHANGED <<callvars, trendvars, tx>>

ScoreComment ==
    /\ job.phase = "comments"
    /\ job.rows # <<>>
    /\ Iteration("comment", Head(job.rows).comment_id, Head(job.rows).post_id,
                 Head(job.rows).body)

\* the with block ends: commit, and return the counters
Commit ==
    /\ job.rows = <<>>
    /\ \/ job.phase = "comments"
       \/ job.phase = "posts" /\ job.scope = "posts"
    /\ signals' = job.view
    /\ returned' = [raised |-> "", posts_scored |-> job.posts_scored,
                  comments_scored |-> job.comments_scored]
    /\ job' = Idle
    /\ last' = NoLast
    /\ UNCHANGED <<posts, comments, now>>
    /\ UNCHANGED <<callvars, trendvars, tx>>

\* mutant: every statement commits by itself, the upserts made before the
\* failure stay
StoreFails_Autocommit ==
    /\ job.phase \in {"posts", "comments"}
    /\ job' = Idle
    /\ signals' = job.view
    /\ returned' = [NoResult EXCEPT !.raised = "store"]
    /\ last' = NoLast
    /\ UNCHANGED <<posts, comments, now>>
    /\ UNCHANGED <<callvars, trendvars, tx>>

\* the store raises in a statement of the job: rollback, and the error
\* reaches the caller
StoreFails ==
    /\ job.phase \in {"posts", "comments"}
    /\ job' = Idle
    /\ returned' = [NoResult EXCEPT !.raised = "store"]
    /\ last' = NoLast
    /\ UNCHANGED <<posts, comments, signals, now>>
    /\ UNCHANGED <<callvars, trendvars, tx>>

Next ==
    \/ ScoreSignals
    \/ ScorePost
    \/ FetchComments
    \/ ScoreComment
    \/ Commit
    \/ StoreFails

Spec == Init /\ [][Next]_vars

(***************************************************************************)
(* One call of a scorer: SpecRules calls score_text on every text of at    *)
(* most MaxTextLen tokens, SpecLLM calls score_text_llm on a few texts and *)
(* every provider response built from the values below.                    *)
(***************************************************************************)
Texts == {None} \cup {Some(s) : s \in SeqsUpTo(Tokens, MaxTextLen)}

\* None; ""; " "; "I went for a walk today"; "which bank? ... fee";
\* "... fee ... monzo"
LLMTexts ==
    {None, Some(<<>>), Some(<<" ">>), Some(<<"walk">>),
     Some(<<"which bank", "?", "fee">>), Some(<<"fee", "monzo">>)}

FlagVals == {JAbsent, JBool(TRUE), JBool(FALSE), JStr(" True ")}
ScoreVals ==
    {JAbsent, JNull, JNum(0 - 50), JNum(0), JNum(80), JNum(100), JNum(500),
     JNaN, JHuge, JBool(TRUE), JStr("0.5"), JStr("high"), JStr("nan")}
KeywordVals ==
    {JAbsent, JList(<<>>), JList(<<"">>), JList(<<"isa", "">>), JStr("fees, isa")}

Responses ==
    {ProviderNone, NotJson, BadJson}
    \cup {Object(q, r, c, p, score, kw, extra) :
            q \in FlagVals, r \in FlagVals, c \in FlagVals, p \in FlagVals,
            score \in ScoreVals, kw \in KeywordVals, extra \in BOOLEAN}

InitRules ==
    /\ arg_text \in Texts
    /\ arg_response = ProviderNone
    /\ ret = NoRet
    /\ pc = "ready"
    /\ DbIdle
    /\ NoTrends

InitLLM ==
    /\ arg_text \in LLMTexts
    /\ arg_response \in Responses
    /\ ret = NoRet
    /\ pc = "ready"
    /\ DbIdle
    /\ NoTrends

CallScoreText ==
    /\ pc = "ready"
    /\ ret' = [raised |-> FALSE, value |-> score_text(arg_text)]
    /\ pc' = "score_text"
    /\ UNCHANGED <<arg_text, arg_response, groq>>
    /\ UNCHANGED <<dbvars, trendvars, tx>>

CallScoreTextLLM ==
    /\ pc = "ready"
    /\ ret' = score_text_llm(arg_text, arg_response)
    /\ pc' = "score_text_llm"
    /\ UNCHANGED <<arg_text, arg_response, groq>>
    /\ UNCHANGED <<dbvars, trendvars, tx>>

NextRules == CallScoreText
NextLLM == CallScoreTextLLM

SpecRules == InitRules /\ [][NextRules]_vars
SpecLLM == InitLLM /\ [][NextLLM]_vars

(***************************************************************************)
(* trends.py: compute_weekly_trends.  Time is in whole days and day 0 is a *)
(* Monday; a percentage is held in tenths of a percent (-50.0 is -500); a  *)
(* signal_sum is in hundredths like the scores it adds; avg_score is the   *)
(* fraction num/den in lowest terms.                                       *)
(***************************************************************************)
DaysPerWeek == 7
\* the day of the first run, a Sunday
FirstDay == 20

\* date_trunc('week', created_utc)::date: the Monday of the day's week
date_trunc_week(day) == day - (day % DaysPerWeek)

Abs(x) == IF x < 0 THEN 0 - x ELSE x

RECURSIVE GCD(_, _)
GCD(a, b) == IF b = 0 THEN a ELSE GCD(b, a % b)

\* mutant: the quotient cut to one decimal instead of rounded
ROUND1_Truncates(n, d) ==
    LET a == Abs(1000 * n)
    IN  (IF n < 0 THEN 0 - 1 ELSE 1) * (a \div d)

\* ROUND((n::numeric / d) * 100, 1) for d > 0, in tenths: numeric rounds
\* half away from zero
ROUND1(n, d) ==
    LET a == Abs(1000 * n)
    IN  (IF n < 0 THEN 0 - 1 ELSE 1) * ((2 * a + d) \div (2 * d))

\* mutant: 0 where the CASE gives NULL
growth_pct_ZeroForNull(doc_count, prior_count) ==
    IF prior_count.null \/ prior_count.v = 0
    THEN SqlVal(0)
    ELSE SqlVal(ROUND1(doc_count - prior_count.v, prior_count.v))

\* CASE WHEN prior_count IS NULL OR prior_count = 0 THEN NULL ELSE ROUND(...)
growth_pct(doc_count, prior_count) ==
    IF prior_count.null \/ prior_count.v = 0
    THEN SqlNull
    ELSE SqlVal(ROUND1(doc_count - prior_count.v, prior_count.v))

\* the signals side of a LEFT JOIN row that matched no signal
NoSignalRow == SignalRow("", "", "", score_text(None), 0)

\* mutant: the WHERE without `cm.cluster_id >= 0`
weekly_join_NoNoiseFilter(post_table, signal_table, cluster_table, membership, day, lookback_weeks) ==
    UNION {
        UNION {
            LET hit == {s \in signal_table :
                            s.content_id = cm.content_id /\ s.content_type = "post"}
            IN  IF hit = {}
                THEN {[cm |-> cm, p |-> p, c |-> c, matched |-> FALSE, s |-> NoSignalRow]}
                ELSE {[cm |-> cm, p |-> p, c |-> c, matched |-> TRUE, s |-> s] : s \in hit}
            : p \in {x \in post_table :
                        /\ x.post_id = cm.content_id
                        /\ x.created_utc # NullTime
                        /\ x.created_utc >= day - DaysPerWeek * lookback_weeks},
              c \in {x \in cluster_table : x.cluster_id = cm.cluster_id}}
        : cm \in {m \in membership : m.content_type = "post"}}

\* mutant: the LEFT JOIN to signals on content_id alone
weekly_join_AnySignal(post_table, signal_table, cluster_table, membership, day, lookback_weeks) ==
    UNION {
        UNION {
            LET hit == {s \in signal_table : s.content_id = cm.content_id}
            IN  IF hit = {}
                THEN {[cm |-> cm, p |-> p, c |-> c, matched |-> FALSE, s |-> NoSignalRow]}
                ELSE {[cm |-> cm, p |-> p, c |-> c, matched |-> TRUE, s |-> s] : s \in hit}
            : p \in {x \in post_table :
                        /\ x.post_id = cm.content_id
                        /\ x.created_utc # NullTime
                        /\ x.created_utc >= day - DaysPerWeek * lookback_weeks},
              c \in {x \in cluster_table : x.cluster_id = cm.cluster_id}}
        : cm \in {m \in membership : m.content_type = "post" /\ m.cluster_id >= 0}}

\* FROM cluster_membership cm JOIN posts p JOIN clusters c LEFT JOIN signals s
\* WHERE p.created_utc >= NOW() - INTERVAL 'n weeks' AND cm.cluster_id >= 0
weekly_join(post_table, signal_table, cluster_table, membership, day, lookback_weeks) ==
    UNION {
        UNION {
            LET hit == {s \in signal_table :
                            s.content_id = cm.content_id /\ s.content_type = "post"}
            IN  IF hit = {}
                THEN {[cm |-> cm, p |-> p, c |-> c, matched |-> FALSE, s |-> NoSignalRow]}
                ELSE {[cm |-> cm, p |-> p, c |-> c, matched |-> TRUE, s |-> s] : s \in hit}
            : p \in {x \in post_table :
                        /\ x.post_id = cm.content_id
                        /\ x.created_utc # NullTime
                        /\ x.created_utc >= day - DaysPerWeek * lookback_weeks},
              c \in {x \in cluster_table : x.cluster_id = cm.cluster_id}}
        : cm \in {m \in membership : m.content_type = "post" /\ m.cluster_id >= 0}}

\* COALESCE(SUM(s.signal_score), 0) over the rows of a group
RECURSIVE signal_sum(_)
signal_sum(rows) ==
    IF rows = {} THEN 0
    ELSE LET r == CHOOSE x \in rows : TRUE
         IN  (IF r.matched THEN r.s.signal_score ELSE 0) + signal_sum(rows \ {r})

\* SUM(p.score) over the rows of a group whose p.score is not NULL
RECURSIVE score_sum(_)
score_sum(rows) ==
    IF rows = {} THEN 0
    ELSE LET r == CHOOSE x \in rows : TRUE
         IN  (IF r.p.score.null THEN 0 ELSE r.p.score.v) + score_sum(rows \ {r})

\* AVG(p.score): NULL when every p.score of the group is NULL
avg_score(rows) ==
    LET den == Cardinality({r \in rows : ~r.p.score.null})
        num == score_sum(rows)
        g == GCD(Abs(num), den)
    IN  IF den = 0
        THEN [null |-> TRUE, num |-> 0, den |-> 1]
        ELSE [null |-> FALSE, num |-> num \div g, den |-> den \div g]

\* the CTE weekly_docs: GROUP BY week_start, cluster_id, cluster_label
weekly_docs(post_table, signal_table, cluster_table, membership, day, lookback_weeks) ==
    LET rows == weekly_join(post_table, signal_table, cluster_table, membership,
                            day, lookback_weeks)
        key(r) == <<date_trunc_week(r.p.created_utc), r.cm.cluster_id, r.c.label>>
    IN  {LET group == {r \in rows : key(r) = k}
         IN  [week_start |-> k[1], cluster_id |-> k[2], cluster_label |-> k[3],
              doc_count |-> Cardinality(group),
              signal_sum |-> signal_sum(group),
              avg_score |-> avg_score(group)]
         : k \in {key(r) : r \in rows}}

\* mutant: the row of the calendar week before, NULL when there is none
LAG_doc_count_CalendarWeek(docs, wd) ==
    LET earlier == {q \in docs : q.cluster_id = wd.cluster_id
                                 /\ q.week_start = wd.week_start - DaysPerWeek}
    IN  IF earlier = {}
        THEN SqlNull
        ELSE SqlVal((CHOOSE q \in earlier : TRUE).doc_count)

\* LAG(doc_count) OVER (PARTITION BY cluster_id ORDER BY week_start)
LAG_doc_count(docs, wd) ==
    LET earlier == {q \in docs : q.cluster_id = wd.cluster_id
                                 /\ q.week_start < wd.week_start}
    IN  IF earlier = {}
        THEN SqlNull
        ELSE SqlVal((CHOOSE q \in earlier :
                        \A o \in earlier : o.week_start <= q.week_start).doc_count)

\* the rows of INSERT INTO weekly_theme_stats ... SELECT ... FROM with_prior
with_prior(docs, at) ==
    {[week_start |-> wd.week_start, cluster_id |-> wd.cluster_id,
      cluster_label |-> wd.cluster_label, doc_count |-> wd.doc_count,
      signal_sum |-> wd.signal_sum, avg_score |-> wd.avg_score,
      growth_pct |-> growth_pct(wd.doc_count, LAG_doc_count(docs, wd)),
      computed_at |-> at] : wd \in docs}

TrendsResult(weeks_computed, rows_inserted) ==
    [raised |-> FALSE, weeks_computed |-> weeks_computed,
     rows_inserted |-> rows_inserted]

(***************************************************************************)
(* The tables compute_weekly_trends reads.  ExamplePosts is one cluster    *)
(* with 10, 5 and 20 posts in three consecutive weeks and another with 3,  *)
(* 5 and 6; SmallPosts are ten posts (one without created_utc) clustered   *)
(* in every way of SmallTopics.                                            *)
(***************************************************************************)
TrendClusters ==
    {[cluster_id |-> 0 - 1, label |-> "-1_noise"],
     [cluster_id |-> 0, label |-> "0_isa"],
     [cluster_id |-> 1, label |-> "1_bank"]}

Membership(content_type, content_id, cluster_id) ==
    [content_type |-> content_type, content_id |-> content_id,
     cluster_id |-> cluster_id]

ExampleWeek(i) == IF i <= 10 THEN 0 ELSE IF i <= 15 THEN 1 ELSE 2
OtherWeek(i) == IF i <= 3 THEN 0 ELSE IF i <= 8 THEN 1 ELSE 2
ExamplePosts ==
    {Post("e" \o ToString(i), "ukpf", Some(<<"fee">>), None,
          DaysPerWeek * ExampleWeek(i) + (i % DaysPerWeek), SqlVal(i % 3))
        : i \in 1..35}
    \cup {Post("f" \o ToString(i), "ukpf", Some(<<"how">>), None,
               DaysPerWeek * OtherWeek(i) + (i % DaysPerWeek), SqlNull)
            : i \in 1..14}
ExampleMembership ==
    {Membership("post", p.post_id, IF p.score.null THEN 1 ELSE 0) : p \in ExamplePosts}

SmallPosts ==
    {Post("t1", "ukpf", Some(<<"which bank", "?">>), Some(<<"fee">>), 1, SqlVal(4)),
     Post("t2", "ukpf", Some(<<"how">>), None, 3, SqlNull),
     Post("t3", "ukpf", Some(<<"fee", "monzo">>), None, 8, SqlVal(0 - 1)),
     Post("t4", "ukpf", Some(<<"walk">>), Some(<<"?">>), 13, SqlVal(7)),
     Post("t5", "ukpf", Some(<<"walk">>), None, 15, SqlNull),
     Post("t6", "ukpf", Some(<<"worth it">>), Some(<<"monzo">>), 20, SqlVal(2)),
     Post("t7", "ukpf", Some(<<"how">>), None, NullTime, SqlVal(9)),
     Post("t8", "ukpf", Some(<<"fee">>), None, 0, SqlVal(1)),
     Post("t9", "ukpf", Some(<<"fee">>), None, 2, SqlVal(1)),
     Post("t10", "ukpf", Some(<<"monzo">>), None, 6, SqlVal(5))}
NoTopic == 0 - 2
SmallTopics ==
    [t1 |-> {0}, t2 |-> {1, NoTopic}, t3 |-> {0, 0 - 1}, t4 |-> {0, 1},
     t5 |-> {0, 1}, t6 |-> {1, 0 - 1}, t7 |-> {0}, t8 |-> {1}, t9 |-> {1},
     t10 |-> {1}]
SmallMemberships ==
    {{Membership("post", id, topics[id]) :
            id \in {x \in DOMAIN topics : topics[x] # NoTopic}}
        \cup {Membership("comment", "t2", 0), Membership("comment", "c9", 1)}
        : topics \in {f \in [DOMAIN SmallTopics -> {0 - 1, 0, 1, NoTopic}] :
                        \A id \in DOMAIN SmallTopics : f[id] \in SmallTopics[id]}}

\* the signals score_signals stores for the posts of `post_table` by rules,
\* and one for a comment whose id is a post's
ScoredBy(post_table) ==
    {SignalRow("post", p.post_id, p.post_id, score_text(Combined(p)), 1)
        : p \in post_table}
    \cup {SignalRow("comment", "t2", "t1", score_text(Some(<<"which bank", "?">>)), 1)}

Lookbacks == {1, 2, 12}

InitTrends ==
    /\ arg_text = None
    /\ arg_response = ProviderNone
    /\ ret = NoRet
    /\ pc = "trends"
    /\ groq = GroqIdle
    /\ query = NoQuery
    /\ comments = {}
    /\ now = 0
    /\ job = Idle
    /\ returned = NoResult
    /\ last = NoLast
    /\ clusters = TrendClusters
    /\ \/ /\ posts = ExamplePosts
          /\ cluster_membership = ExampleMembership
       \/ /\ posts = SmallPosts
          /\ cluster_membership \in SmallMemberships
    /\ signals \in {{}, ScoredBy({p \in posts : p.post_id \notin {"e1", "t3", "t5"}})}
    /\ weekly_theme_stats = {}
    /\ today = FirstDay
    /\ trend = [c \in Callers |-> TrendIdle]
    /\ trends_returned = [c \in Callers |-> NoTrendsResult]
    /\ tx = [c \in Callers |-> TxIdle]

\* mutant: no DELETE, the INSERT adds to the doc_count of a row already there
delete_then_insert_Accumulates(table, rows) ==
    {IF \E o \in table : o.week_start = r.week_start /\ o.cluster_id = r.cluster_id
     THEN [r EXCEPT !.doc_count = r.doc_count
                + (CHOOSE o \in table : o.week_start = r.week_start
                                        /\ o.cluster_id = r.cluster_id).doc_count]
     ELSE r : r \in rows}
    \cup {o \in table : ~\E r \in rows : o.week_start = r.week_start
                                         /\ o.cluster_id = r.cluster_id}

\* mutant: the INSERT without the DELETE before it
delete_then_insert_KeepsOld(table, rows) ==
    rows \cup {o \in table : ~\E r \in rows : o.week_start = r.week_start
                                             /\ o.cluster_id = r.cluster_id}

\* DELETE FROM weekly_theme_stats, then INSERT INTO weekly_theme_stats
delete_then_insert(table, rows) == (table \ table) \cup rows

\* compute_weekly_trends(engine, lookback_weeks): the transaction, from
\* `with engine.begin()` to its commit.  CREATE INDEX IF NOT EXISTS locks the
\* table against the DELETE and INSERT of every other transaction until this
\* one ends, so the transactions of two calls do not interleave (a deadlock
\* between them is TrendsStoreFails).
ComputeWeeklyTrends(c) ==
    /\ trend[c].phase = "idle"
    /\ now < MaxRuns
    /\ \E lookback_weeks \in Lookbacks :
          LET docs == weekly_docs(posts, signals, clusters, cluster_membership,
                                  today, lookback_weeks)
              rows == with_prior(docs, now + 1)
          IN  /\ weekly_theme_stats' = delete_then_insert(weekly_theme_stats, rows)
              /\ trend' = [trend EXCEPT ![c] =
                                [phase |-> "count", lookback_weeks |-> lookback_weeks,
                                 day |-> today, at |-> now + 1, written |-> rows,
                                 rows_inserted |-> Cardinality(rows)]]
    /\ now' = now + 1
    /\ UNCHANGED <<posts, comments, signals, job, returned, last>>
    /\ UNCHANGED <<clusters, cluster_membership, today, trends_returned, query>>
    /\ UNCHANGED <<callvars, tx>>

\* compute_weekly_trends: SELECT COUNT(DISTINCT week_start) on a second
\* connection, then return
CountWeeks(c) ==
    /\ trend[c].phase = "count"
    /\ trends_returned' = [trends_returned EXCEPT ![c] =
          TrendsResult(Cardinality({r.week_start : r \in weekly_theme_stats}),
                       trend[c].rows_inserted)]
    /\ trend' = [trend EXCEPT ![c].phase = "idle"]
    /\ UNCHANGED dbvars
    /\ UNCHANGED <<clusters, cluster_membership, weekly_theme_stats, today, query>>
    /\ UNCHANGED <<callvars, tx>>

\* mutant: the DELETE commits by itself before the INSERT fails
TrendsStoreFails_AfterDelete(c) ==
    /\ \/ trend[c].phase = "idle" /\ now < MaxRuns
       \/ trend[c].phase = "count"
    /\ trends_returned' = [trends_returned EXCEPT ![c] =
                                [NoTrendsResult EXCEPT !.raised = TRUE]]
    /\ weekly_theme_stats' = IF trend[c].phase = "idle" THEN {}
                                                        ELSE weekly_theme_stats
    /\ trend' = [trend EXCEPT ![c].phase = "idle"]
    /\ UNCHANGED dbvars
    /\ UNCHANGED <<clusters, cluster_membership, today, query>>
    /\ UNCHANGED <<callvars, tx>>

\* the store raises in the transaction (rolled back) or in the count query,
\* and compute_weekly_trends lets the exception through
TrendsStoreFails(c) ==
    /\ \/ trend[c].phase = "idle" /\ now < MaxRuns
       \/ trend[c].phase = "count"
    /\ trends_returned' = [trends_returned EXCEPT ![c] =
                                [NoTrendsResult EXCEPT !.raised = TRUE]]
    /\ trend' = [trend EXCEPT ![c].phase = "idle"]
    /\ UNCHANGED dbvars
    /\ UNCHANGED <<clusters, cluster_membership, weekly_theme_stats, today, query>>
    /\ UNCHANGED <<callvars, tx>>

\* a week passes
Tick ==
    /\ today + DaysPerWeek <= FirstDay + DaysPerWeek * MaxTicks
    /\ today' = today + DaysPerWeek
    /\ UNCHANGED dbvars
    /\ UNCHANGED <<clusters, cluster_membership, weekly_theme_stats, trend,
                   trends_returned, query>>
    /\ UNCHANGED <<callvars, tx>>

NextTrends ==
    \/ \E c \in Callers : ComputeWeeklyTrends(c)
    \/ \E c \in Callers : CountWeeks(c)
    \/ \E c \in Callers : TrendsStoreFails(c)
    \/ Tick

SpecTrends == InitTrends /\ [][NextTrends]_vars

(***************************************************************************)
(* trends.py: get_trending_themes.  avg_signal, avg_growth and trend_score *)
(* of the SELECT are fractions num/den: avg_signal in hundredths,          *)
(* avg_growth and trend_score in tenths of a percent.  The call returns    *)
(* avg_signal and trend_score rounded to hundredths and avg_growth to      *)
(* tenths.                                                                 *)
(***************************************************************************)
FracNull == [null |-> TRUE, num |-> 0, den |-> 1]
Frac(num, den) ==
    LET g == GCD(Abs(num), den)
    IN  [null |-> FALSE, num |-> num \div g, den |-> den \div g]
FracLess(a, b) == a.num * b.den < b.num * a.den

\* the sum of the second components of a set of pairs
RECURSIVE SumPairs(_)
SumPairs(S) ==
    IF S = {} THEN 0
    ELSE LET x == CHOOSE y \in S : TRUE
         IN  x[2] + SumPairs(S \ {x})

\* mutant: no HAVING clause
HAVING_min_docs_Off(total_docs, min_docs) == TRUE

\* HAVING SUM(doc_count) >= :min_docs
HAVING_min_docs(total_docs, min_docs) == total_docs >= min_docs

\* the CTE recent: WHERE week_start >= NOW() - INTERVAL 'n weeks'
\* GROUP BY cluster_id, cluster_label HAVING ...
recent(table, day, weeks, min_docs) ==
    LET rows == {r \in table : r.week_start >= day - DaysPerWeek * weeks}
        agg(k) ==
            LET group == {r \in rows : r.cluster_id = k[1] /\ r.cluster_label = k[2]}
                grown == {r \in group : ~r.growth_pct.null}
            IN  [cluster_id |-> k[1], cluster_label |-> k[2],
                 total_docs |-> SumPairs({<<r, r.doc_count>> : r \in group}),
                 avg_signal |-> Frac(SumPairs({<<r, r.signal_sum>> : r \in group}),
                                     Cardinality(group)),
                 avg_growth |->
                    IF grown = {}
                    THEN FracNull
                    ELSE Frac(SumPairs({<<r, r.growth_pct.v>> : r \in grown}),
                              Cardinality(grown))]
    IN  {a \in {agg(k) : k \in {<<r.cluster_id, r.cluster_label>> : r \in rows}} :
            HAVING_min_docs(a.total_docs, min_docs)}

\* mutant: the ranking by growth alone
trend_score_GrowthOnly(avg_growth, total_docs) ==
    IF avg_growth.null THEN Frac(0, 1) ELSE avg_growth

\* COALESCE(avg_growth, 0) + (total_docs * 0.5) AS trend_score
trend_score(avg_growth, total_docs) ==
    IF avg_growth.null
    THEN Frac(5 * total_docs, 1)
    ELSE Frac(avg_growth.num + 5 * total_docs * avg_growth.den, avg_growth.den)

\* ORDER BY trend_score DESC: the orders it may return the rows of S in
RECURSIVE order_by_trend_score(_)
order_by_trend_score(S) ==
    IF S = {} THEN {<<>>}
    ELSE UNION {{<<m>> \o rest : rest \in order_by_trend_score(S \ {m})}
                : m \in {x \in S : \A y \in S :
                            ~FracLess(x.trend_score, y.trend_score)}}

\* SELECT ..., COALESCE(avg_growth, 0) + (total_docs * 0.5) AS trend_score
\* FROM recent ORDER BY trend_score DESC
ranked(groups) ==
    order_by_trend_score(
        {[cluster_id |-> a.cluster_id, cluster_label |-> a.cluster_label,
          total_docs |-> a.total_docs, avg_signal |-> a.avg_signal,
          avg_growth |-> a.avg_growth,
          trend_score |-> trend_score(a.avg_growth, a.total_docs)]
         : a \in groups})

\* round(num / den, ndigits) of a Python float, as a multiple of the last
\* digit: the nearest one; half-way the float's binary expansion decides, so
\* either neighbour
PyRound(num, den) ==
    LET f == num \div den
        rem == num - f * den
    IN  IF 2 * rem < den THEN {f}
        ELSE IF 2 * rem > den THEN {f + 1}
        ELSE {f, f + 1}

\* round(r.avg_growth or 0, 1) if r.avg_growth else None
reported_avg_growth(avg_growth) ==
    IF avg_growth.null \/ avg_growth.num = 0
    THEN {SqlNull}
    ELSE {SqlVal(v) : v \in PyRound(avg_growth.num, avg_growth.den)}

\* the dicts the list comprehension may build for a row r
theme_dicts(r) ==
    {[cluster_id |-> r.cluster_id, label |-> r.cluster_label,
      total_docs |-> r.total_docs, avg_signal |-> s, avg_growth |-> g,
      trend_score |-> t] :
        s \in PyRound(r.avg_signal.num, r.avg_signal.den),
        g \in reported_avg_growth(r.avg_growth),
        t \in PyRound(10 * r.trend_score.num, r.trend_score.den)}

\* the lists of dicts the list comprehension may build from the rows
RECURSIVE theme_lists(_)
theme_lists(rows) ==
    IF rows = <<>> THEN {<<>>}
    ELSE {<<d>> \o rest : d \in theme_dicts(Head(rows)),
                          rest \in theme_lists(Tail(rows))}

\* the lists get_trending_themes may return
get_trending_themes(table, day, weeks, min_docs, limit) ==
    UNION {theme_lists(Limit(q, limit))
           : q \in ranked(recent(table, day, weeks, min_docs))}

(***************************************************************************)
(* The readers over the table compute_weekly_trends writes for five        *)
(* clusters: weekly posts 4, 2, 3 (mean growth 0); 1, 2 (few posts, growth *)
(* 100); 3 in the last week only (no growth); 3, 1; and 3 in the last week *)
(* only.                                                                   *)
(***************************************************************************)
QueryLayout ==
    {<<0, 0, 4>>, <<0, 1, 2>>, <<0, 2, 3>>, <<1, 1, 1>>, <<1, 2, 2>>,
     <<2, 2, 3>>, <<3, 1, 3>>, <<3, 2, 1>>, <<4, 2, 3>>}
QueryClusters ==
    {[cluster_id |-> c, label |-> ToString(c) \o "_topic"] : c \in 0..4}
QueryPosts ==
    UNION {{Post("q" \o ToString(l[1]) \o ToString(l[2]) \o ToString(i), "ukpf",
                 Some(IF l[1] = 1 THEN <<"which bank", "?">> ELSE <<"fee">>), None,
                 DaysPerWeek * l[2] + i, SqlVal(i))
            : i \in 1..l[3]} : l \in QueryLayout}
QueryMembership ==
    UNION {{Membership("post", "q" \o ToString(l[1]) \o ToString(l[2]) \o ToString(i),
                       l[1])
            : i \in 1..l[3]} : l \in QueryLayout}

QueryWeeks == {1, 4}
MinDocs == {2, 4}
QueryLimits == {1, 3, 10}

InitQueries ==
    /\ arg_text = None
    /\ arg_response = ProviderNone
    /\ ret = NoRet
    /\ pc = "trends"
    /\ groq = GroqIdle
    /\ query = NoQuery
    /\ comments = {}
    /\ now = 0
    /\ job = Idle
    /\ returned = NoResult
    /\ last = NoLast
    /\ clusters = QueryClusters
    /\ posts = QueryPosts
    /\ cluster_membership = QueryMembership
    /\ signals = ScoredBy(QueryPosts)
    /\ weekly_theme_stats = {}
    /\ today = FirstDay
    /\ trend = [c \in Callers |-> TrendIdle]
    /\ trends_returned = [c \in Callers |-> NoTrendsResult]
    /\ tx = [c \in Callers |-> TxIdle]

\* get_trending_themes(engine, weeks, min_docs, limit): one SELECT on the
\* committed table, then the list of dicts
GetTrendingThemes ==
    /\ \E weeks \in QueryWeeks, min_docs \in MinDocs, limit \in QueryLimits :
          \E s \in get_trending_themes(weekly_theme_stats, today, weeks, min_docs, limit) :
              query' = [fn |-> "get_trending_themes", weeks |-> weeks,
                        min_docs |-> min_docs, limit |-> limit, day |-> today,
                        table |-> weekly_theme_stats, returned |-> s]
    /\ UNCHANGED dbvars
    /\ UNCHANGED <<clusters, cluster_membership, weekly_theme_stats, today, trend,
                   trends_returned>>
    /\ UNCHANGED <<callvars, tx>>

\* the weekly job of one caller, and the readers
NextQueries ==
    \/ ComputeWeeklyTrends("c1")
    \/ CountWeeks("c1")
    \/ TrendsStoreFails("c1")
    \/ Tick
    \/ GetTrendingThemes

SpecQueries == InitQueries /\ [][NextQueries]_vars

(***************************************************************************)
(* llm_extraction.py: call_llm, call_groq and call_ollama under            *)
(* score_text_llm.  One step is one httpx.post with what follows it up to  *)
(* the next request or the return; waits are in seconds.                   *)
(***************************************************************************)
max_retries == 5
BackoffCap == 60

RECURSIVE Pow2(_)
Pow2(n) == IF n = 0 THEN 1 ELSE 2 * Pow2(n - 1)

\* the retry-after header of a 429 response: absent, empty, a number of
\* seconds, or an HTTP date
NoRetryAfter == [kind |-> "absent", v |-> 0]
EmptyRetryAfter == [kind |-> "empty", v |-> 0]
Seconds(v) == [kind |-> "seconds", v |-> v]
HttpDate == [kind |-> "date", v |-> 0]
RetryAfters == {NoRetryAfter, EmptyRetryAfter, Seconds(7), Seconds(0), Seconds(0 - 1), HttpDate}

\* what httpx.post does: a 429 response, a 200 response with the content of
\* the first choice, a 200 response without it, another error status, a
\* timeout or a transport error
Outcome429(retry_after) == [kind |-> "429", retry_after |-> retry_after, content |-> ProviderNone]
Outcome200(content) == [kind |-> "200", retry_after |-> NoRetryAfter, content |-> content]
OutcomeOf(kind) == [kind |-> kind, retry_after |-> NoRetryAfter, content |-> ProviderNone]
Contents == {NotJson, ValidObject, HugeScore}
Failures == {"bad body", "500", "timeout", "transport"}
GroqOutcomes ==
    {Outcome429(h) : h \in RetryAfters} \cup {Outcome200(c) : c \in Contents}
    \cup {OutcomeOf(k) : k \in Failures}
OllamaOutcomes ==
    {Outcome200(c) : c \in Contents \cup {ProviderNone}}
    \cup {OutcomeOf(k) : k \in Failures}

\* wait_time = float(retry_after) if retry_after else min(2 ** attempt * 2, 60),
\* then time.sleep(wait_time): float() raises on a date, time.sleep on a
\* negative number
wait_time(attempt, retry_after) ==
    IF retry_after.kind \in {"absent", "empty"}
    THEN [raised |-> FALSE, time |-> Min(Pow2(attempt) * 2, BackoffCap)]
    ELSE IF retry_after.kind = "date" \/ retry_after.v < 0
         THEN [raised |-> TRUE, time |-> 0]
         ELSE [raised |-> FALSE, time |-> retry_after.v]

\* mutant: one request more than max_retries
range_exhausted_OneMore(attempt) == attempt > max_retries

\* `for attempt in range(max_retries)` has no attempt left
range_exhausted(attempt) == attempt >= max_retries

CallTexts == {None, Some(<<" ">>), Some(<<"walk">>), Some(<<"which bank", "?">>)}
Providers == {"groq", "ollama"}

InitLLMCall ==
    /\ arg_text \in CallTexts
    /\ arg_response = ProviderNone
    /\ ret = NoRet
    /\ pc = "ready"
    /\ DbIdle
    /\ NoTrends

\* score_text_llm(text) for a text that is None or blank
ScoreTextLLMBlank ==
    /\ pc = "ready"
    /\ ~CallsLLM(arg_text)
    /\ ret' = score_text_llm(arg_text, ProviderNone)
    /\ pc' = "score_text_llm"
    /\ UNCHANGED <<arg_text, arg_response, groq>>
    /\ UNCHANGED <<dbvars, trendvars, tx>>

\* score_text_llm(text) up to call_llm, and call_llm / call_groq up to the
\* first request: settings.llm_provider and settings.groq_api_key decide
\* between call_groq and call_ollama
CallLLM ==
    /\ pc = "ready"
    /\ CallsLLM(arg_text)
    /\ \E llm_provider \in Providers, groq_api_key \in BOOLEAN :
          groq' = [GroqIdle EXCEPT !.phase =
                        IF llm_provider = "groq" /\ groq_api_key
                        THEN "call_groq" ELSE "call_ollama"]
    /\ pc' = "call_llm"
    /\ UNCHANGED <<arg_text, arg_response, ret>>
    /\ UNCHANGED <<dbvars, trendvars, tx>>

\* call_groq: one iteration of the loop
GroqAttempt ==
    /\ pc = "call_llm"
    /\ groq.phase = "call_groq"
    /\ \E o \in GroqOutcomes :
          LET requests == Append(groq.requests, o.kind)
              w == wait_time(groq.attempt, o.retry_after)
          IN  IF o.kind = "429" /\ ~w.raised
              THEN groq' = [groq EXCEPT
                        !.requests = requests,
                        !.waits = Append(groq.waits,
                                         [attempt |-> groq.attempt,
                                          retry_after |-> o.retry_after,
                                          time |-> w.time]),
                        !.attempt = groq.attempt + 1,
                        !.phase = IF range_exhausted(groq.attempt + 1)
                                  THEN "done" ELSE "call_groq"]
              ELSE groq' = [groq EXCEPT
                        !.requests = requests,
                        !.result = IF o.kind = "200" THEN o.content ELSE ProviderNone,
                        !.phase = "done"]
    /\ UNCHANGED <<arg_text, arg_response, ret, pc>>
    /\ UNCHANGED <<dbvars, trendvars, tx>>

\* call_ollama: its one request
OllamaRequest ==
    /\ pc = "call_llm"
    /\ groq.phase = "call_ollama"
    /\ \E o \in OllamaOutcomes :
          groq' = [groq EXCEPT
                        !.requests = Append(groq.requests, o.kind),
                        !.result = IF o.kind = "200" THEN o.content ELSE ProviderNone,
                        !.phase = "done"]
    /\ UNCHANGED <<arg_text, arg_response, ret, pc>>
    /\ UNCHANGED <<dbvars, trendvars, tx>>

\* score_text_llm after call_llm has returned
ScoreTextLLMReturns ==
    /\ pc = "call_llm"
    /\ groq.phase = "done"
    /\ arg_response' = groq.result
    /\ ret' = score_text_llm(arg_text, groq.result)
    /\ pc' = "score_text_llm"
    /\ UNCHANGED <<arg_text, groq>>
    /\ UNCHANGED <<dbvars, trendvars, tx>>

NextLLMCall ==
    \/ ScoreTextLLMBlank
    \/ CallLLM
    \/ GroqAttempt
    \/ OllamaRequest
    \/ ScoreTextLLMReturns

SpecLLMCall == InitLLMCall /\ [][NextLLMCall]_vars
\* the call runs on: every httpx.post returns or raises within its timeout
FairSpecLLMCall == SpecLLMCall /\ WF_vars(NextLLMCall)

(***************************************************************************)
(* Two score_signals calls side by side (scope "posts"), each in its own   *)
(* READ COMMITTED transaction: a statement sees the committed table and    *)
(* the transaction's own writes; an INSERT ... ON CONFLICT on a key that   *)
(* an open transaction has written waits for that transaction to end; two *)
(* transactions waiting for each other are a deadlock, which the store     *)
(* ends by failing one of them.  The two posts have the same created_utc,  *)
(* so ORDER BY may return them in either order.                            *)
(***************************************************************************)
ConcPosts ==
    {Post("a", "ukpf", Some(<<"which bank", "?">>), None, 3, SqlNull),
     Post("b", "ukpf", Some(<<"walk">>), None, 3, SqlNull)}
ConcMethods == {"rules", "llm"}
ConcResponses == {ProviderNone, ValidObject}
ConcHybridMin == 20

InitConcurrent ==
    /\ arg_text = None
    /\ arg_response = ProviderNone
    /\ ret = NoRet
    /\ pc = "concurrent"
    /\ posts = ConcPosts
    /\ comments = {}
    /\ signals = {}
    /\ now = 0
    /\ job = Idle
    /\ returned = NoResult
    /\ last = NoLast
    /\ NoTrends

\* the rows a statement of transaction t sees
Visible(t, table) ==
    {s \in table : RowsOf(t.writes, s.content_type, s.content_id) = {}} \cup t.writes

\* the callers whose open transaction holds the lock of the row `key`
Holders(c, content_type, content_id) ==
    {d \in Callers \ {c} :
        /\ tx[d].phase = "posts"
        /\ RowsOf(tx[d].writes, content_type, content_id) # {}}

\* the callers whose lock the next statement of caller c waits for
WaitsFor(c) ==
    IF tx[c].phase = "posts" /\ tx[c].rows # <<>>
    THEN Holders(c, "post", Head(tx[c].rows).post_id)
    ELSE {}

\* `with engine.begin() as conn`, then the posts SELECT
Begin(c) ==
    /\ tx[c].phase = "idle"
    /\ now < MaxRuns
    /\ \E force \in BOOLEAN, method \in ConcMethods, limit_posts \in Limits :
       \E q \in Ordered(SelectPosts(posts, signals, "ukpf", force)) :
          tx' = [tx EXCEPT ![c] =
                    [TxIdle EXCEPT !.phase = "posts", !.force = force,
                                   !.method = method, !.at = now + 1,
                                   !.rows = Limit(q, limit_posts),
                                   !.met = {d \in Callers \ {c} :
                                               tx[d].phase = "posts"}]]
    /\ now' = now + 1
    /\ UNCHANGED <<posts, comments, signals, job, returned, last>>
    /\ UNCHANGED <<callvars, trendvars>>

\* one iteration of the posts loop, once the row's lock is free
Upsert(c) ==
    /\ tx[c].phase = "posts"
    /\ tx[c].rows # <<>>
    /\ WaitsFor(c) = {}
    /\ \E response \in ConcResponses :
          LET t == tx[c]
              p == Head(t.rows)
              o == _score_text_with_method(Combined(p), t.method, ConcHybridMin,
                                           response)
              view == _upsert_signal(Visible(t, signals), "post", p.post_id,
                                     p.post_id, o.value, t.at)
          IN  /\ o.called_llm \/ response = ProviderNone
              /\ ~o.raised
              /\ tx' = [tx EXCEPT ![c] =
                          [t EXCEPT
                              !.rows = Tail(t.rows),
                              !.writes = {s \in t.writes : s.content_id # p.post_id}
                                         \cup RowsOf(view, "post", p.post_id),
                              !.results = {r \in t.results : r.content_id # p.post_id}
                                          \cup {[content_id |-> p.post_id,
                                                 result |-> o.value]},
                              !.posts_scored = t.posts_scored + 1]]
    /\ UNCHANGED dbvars
    /\ UNCHANGED <<callvars, trendvars>>

\* the with block ends: commit
TxCommit(c) ==
    /\ tx[c].phase = "posts"
    /\ tx[c].rows = <<>>
    /\ signals' = Visible(tx[c], signals)
    /\ tx' = [tx EXCEPT ![c].phase = "done"]
    /\ UNCHANGED <<posts, comments, now, job, returned, last>>
    /\ UNCHANGED <<callvars, trendvars>>

\* deadlock detected: the statement of caller c fails, its transaction is
\* rolled back and the error reaches its caller
Deadlock(c) ==
    /\ \E d \in WaitsFor(c) : c \in WaitsFor(d)
    /\ tx' = [tx EXCEPT ![c] = [@ EXCEPT !.phase = "aborted", !.writes = {},
                                         !.results = {}, !.rows = <<>>,
                                         !.posts_scored = 0]]
    /\ UNCHANGED dbvars
    /\ UNCHANGED <<callvars, trendvars>>

NextConcurrent ==
    \E c \in Callers : Begin(c) \/ Upsert(c) \/ TxCommit(c) \/ Deadlock(c)

SpecConcurrent == InitConcurrent /\ [][NextConcurrent]_vars

(***************************************************************************)
(* Every operation that reaches weekly_theme_stats, over one database: the *)
(* weekly job, the three readers, score_signals and the clustering run     *)
(* (clustering.py), whose DELETE FROM clusters is followed by the foreign  *)
(* keys' ON DELETE CASCADE into cluster_membership and weekly_theme_stats. *)
(***************************************************************************)
\* round(x or 0, 1) if x else None, of a nullable fraction
reported_or_none(x) ==
    IF x.null \/ x.num = 0
    THEN {SqlNull}
    ELSE {SqlVal(v) : v \in PyRound(10 * x.num, x.den)}

\* the lists built from the rows `f` (a function on a set of weeks), in the
\* order `asc` or descending, each row giving one of the dicts of `dicts`
ListsOf(ws, dicts(_), asc) ==
    LET n == Cardinality(ws)
        q == CHOOSE o \in [1..n -> ws] :
                \A i, j \in 1..n : i < j => IF asc THEN o[i] < o[j] ELSE o[i] > o[j]
    IN  {l \in [1..n -> UNION {dicts(w) : w \in ws}] :
            \A i \in 1..n : l[i] \in dicts(q[i])}

\* the lists get_theme_timeseries may return
get_theme_timeseries(table, day, cluster_id, weeks) ==
    LET rows == {r \in table : /\ r.cluster_id = cluster_id
                               /\ r.week_start >= day - DaysPerWeek * weeks}
        row(w) == CHOOSE r \in rows : r.week_start = w
        dicts(w) ==
            {[week |-> w, docs |-> row(w).doc_count,
              signal_sum |-> row(w).signal_sum, avg_score |-> a,
              growth_pct |-> row(w).growth_pct]
                : a \in reported_or_none(row(w).avg_score)}
    IN  ListsOf({r.week_start : r \in rows}, dicts, TRUE)

\* the lists get_weekly_summary may return
get_weekly_summary(table, day, weeks) ==
    LET rows == {r \in table : r.week_start >= day - DaysPerWeek * weeks}
        group(w) == {r \in rows : r.week_start = w}
        scored(w) == {r \in group(w) : ~r.avg_score.null}
        \* AVG(avg_score): the sum over a common denominator
        common(w) == CHOOSE n \in 1..1000 :
                        /\ \A r \in scored(w) : n % r.avg_score.den = 0
                        /\ \A m \in 1..(n - 1) :
                              \E r \in scored(w) : m % r.avg_score.den # 0
        avg(w) ==
            IF scored(w) = {}
            THEN FracNull
            ELSE Frac(SumPairs({<<r, r.avg_score.num * (common(w) \div r.avg_score.den)>>
                                  : r \in scored(w)}),
                      common(w) * Cardinality(scored(w)))
        dicts(w) ==
            {[week |-> w,
              active_themes |-> Cardinality({r.cluster_id : r \in group(w)}),
              total_docs |-> SumPairs({<<r, r.doc_count>> : r \in group(w)}),
              total_signal |-> SumPairs({<<r, r.signal_sum>> : r \in group(w)}),
              avg_reddit_score |-> a]
                : a \in reported_or_none(avg(w))}
    IN  ListsOf({r.week_start : r \in rows}, dicts, FALSE)

\* variant: the foreign key without ON DELETE CASCADE action on the rows
on_delete_cascade_KeepsRows(table, cluster_table) == table

\* REFERENCES clusters(cluster_id) ON DELETE CASCADE: what is left of `table`
\* when only the clusters of `cluster_table` are left
on_delete_cascade(table, cluster_table) ==
    {r \in table : \E c \in cluster_table : c.cluster_id = r.cluster_id}

FrameMembership ==
    {{Membership("post", "a", 0), Membership("post", "b", 1)},
     {Membership("post", "a", 0), Membership("post", "b", 0 - 1)}}
FrameClusterIds == {0, 1}

InitFrame ==
    /\ arg_text = None
    /\ arg_response = ProviderNone
    /\ ret = NoRet
    /\ pc = "frame"
    /\ groq = GroqIdle
    /\ query = NoQuery
    /\ posts = ConcPosts
    /\ comments = {}
    /\ signals = {}
    /\ now = 0
    /\ job = Idle
    /\ returned = NoResult
    /\ last = NoLast
    /\ clusters = TrendClusters
    /\ cluster_membership = {Membership("post", "a", 0), Membership("post", "b", 1)}
    /\ weekly_theme_stats = {}
    /\ today = FirstDay
    /\ trend = [c \in Callers |-> TrendIdle]
    /\ trends_returned = [c \in Callers |-> NoTrendsResult]
    /\ tx = [c \in Callers |-> TxIdle]

\* get_theme_timeseries(engine, cluster_id, weeks): one SELECT
GetThemeTimeseries ==
    /\ \E cluster_id \in FrameClusterIds, weeks \in QueryWeeks :
          \E s \in get_theme_timeseries(weekly_theme_stats, today, cluster_id, weeks) :
              query' = [fn |-> "get_theme_timeseries", weeks |-> weeks,
                        min_docs |-> 0, limit |-> 0, day |-> today,
                        table |-> weekly_theme_stats, returned |-> s,
                        cluster_id |-> cluster_id]
    /\ UNCHANGED dbvars
    /\ UNCHANGED <<clusters, cluster_membership, weekly_theme_stats, today, trend,
                   trends_returned>>
    /\ UNCHANGED <<callvars, tx>>

\* get_weekly_summary(engine, weeks): one SELECT
GetWeeklySummary ==
    /\ \E weeks \in QueryWeeks :
          \E s \in get_weekly_summary(weekly_theme_stats, today, weeks) :
              query' = [fn |-> "get_weekly_summary", weeks |-> weeks,
                        min_docs |-> 0, limit |-> 0, day |-> today,
                        table |-> weekly_theme_stats, returned |-> s]
    /\ UNCHANGED dbvars
    /\ UNCHANGED <<clusters, cluster_membership, weekly_theme_stats, today, trend,
                   trends_returned>>
    /\ UNCHANGED <<callvars, tx>>

\* the clustering run, first transaction: DELETE FROM cluster_membership of
\* the subreddit's posts, DELETE FROM clusters
ClearClusters ==
    /\ pc = "frame"
    /\ pc' = "clustering"
    /\ clusters' = clusters \ clusters
    /\ cluster_membership' = on_delete_cascade(cluster_membership, clusters')
    /\ weekly_theme_stats' = on_delete_cascade(weekly_theme_stats, clusters')
    /\ UNCHANGED <<arg_text, arg_response, ret, groq>>
    /\ UNCHANGED <<dbvars, today, trend, trends_returned, query, tx>>

\* the clustering run, second and third transaction: the topics of the
\* topic model into clusters, then the documents into cluster_membership
InsertClusters ==
    /\ pc = "clustering"
    /\ pc' = "frame"
    /\ \E membership \in FrameMembership :
          /\ clusters' = {c \in TrendClusters :
                            \E cm \in membership : cm.cluster_id = c.cluster_id}
          /\ cluster_membership' = membership
    /\ UNCHANGED <<arg_text, arg_response, ret, groq>>
    /\ UNCHANGED <<dbvars, weekly_theme_stats, today, trend, trends_returned,
                   query, tx>>

NextFrame ==
    \/ ComputeWeeklyTrends("c1")
    \/ CountWeeks("c1")
    \/ GetTrendingThemes
    \/ GetThemeTimeseries
    \/ GetWeeklySummary
    \/ ClearClusters
    \/ InsertClusters
    \/ Begin("c1")
    \/ Upsert("c1")
    \/ TxCommit("c1")

SpecFrame == InitFrame /\ [][NextFrame]_vars

(***************************************************************************)
(* Properties of the scorers                                               *)
(***************************************************************************)
InUnit(score) == score # NaN /\ score >= 0 /\ score <= 100
AllFlags(v) ==
    v.is_question /\ v.asks_recommendation /\ v.mentions_cost /\ v.mentions_platform
NoFlag(v) ==
    ~v.is_question /\ ~v.asks_recommendation /\ ~v.mentions_cost /\ ~v.mentions_platform

\* C2: whatever flags score_text computes, its signal_score is in [0,1], is
\* exactly 0.0 iff all four flags are false and exactly 1.0 iff all four are
\* true.
C2_RuleScoreRange ==
    pc = "score_text" =>
        /\ InUnit(ret.value.signal_score)
        /\ (ret.value.signal_score = 0 <=> NoFlag(ret.value))
        /\ (ret.value.signal_score = 100 <=> AllFlags(ret.value))

C2_Witness ==
    pc = "score_text" /\ AllFlags(ret.value) /\ ret.value.signal_score = 100

\* C3: score_text_llm never raises, and returns a signal_score in [0,1],
\* whatever the provider returned.
C3_NeverRaises ==
    pc = "score_text_llm" => ~ret.raised /\ InUnit(ret.value.signal_score)

\* The required fields of LLMSignalResponse: the four flags and signal_score.
MissingRequired(resp) ==
    \E v \in {resp.is_question, resp.asks_recommendation, resp.mentions_cost,
              resp.mentions_platform, resp.signal_score} : v.t = "absent"

Unparseable(resp) ==
    \/ resp.kind # "object"
    \/ resp = EmptyObject
    \/ resp.signal_score.t = "nan"
    \/ (resp.signal_score.t = "str" /\ resp.signal_score.s = "nan")

C1_StoredScoreInUnit ==
    \A s \in signals \cup job.view : InUnit(s.signal_score)

\* post "a", which the rules score 1.0, stored with the 0.0 recomputed for
\* the provider's {"signal_score": 5}
C1_Witness ==
    \E s \in signals :
        /\ s.content_type = "post" /\ s.content_id = "a"
        /\ s.signal_score = 0 /\ ~s.is_question

\* the rule result is strong enough for hybrid mode to keep it
Strong(rule_result, hybrid_min_score) ==
    \/ rule_result.signal_score >= hybrid_min_score
    \/ rule_result.is_question
    \/ rule_result.asks_recommendation

\* C6: in hybrid mode a text whose rule result has signal_score >=
\* hybrid_min_score, or is_question, or asks_recommendation, gets the rule
\* result unchanged, and neither score_text_llm nor call_llm is invoked.
C6_HybridKeepsRule ==
    (last.set /\ last.method = "hybrid"
     /\ Strong(score_text(last.text), last.hybrid_min_score)) =>
        /\ ~last.outcome.raised
        /\ last.outcome.value = score_text(last.text)
        /\ ~last.outcome.entered_llm
        /\ ~last.outcome.called_llm

\* comment "a" ("how": a question scoring 0.35) under hybrid_min_score 0.9
C6_Witness ==
    /\ last.set /\ last.method = "hybrid" /\ last.hybrid_min_score = 90
    /\ last.content_type = "comment" /\ last.content_id = "a"
    /\ last.outcome.value.signal_score = 35
    /\ ~last.outcome.entered_llm

\* C7: in hybrid mode a text whose rule result has signal_score <
\* hybrid_min_score and neither is_question nor asks_recommendation is handed
\* to score_text_llm, whose outcome is the outcome of the scoring, and whose
\* result is the row stored for the item.
C7_HybridDelegates ==
    (last.set /\ last.method = "hybrid"
     /\ ~Strong(score_text(last.text), last.hybrid_min_score)) =>
        /\ last.outcome.entered_llm
        /\ last.outcome.raised = score_text_llm(last.text, last.response).raised
        /\ last.outcome.value = score_text_llm(last.text, last.response).value
        /\ ~last.outcome.raised =>
              \E post_id \in {p.post_id : p \in posts} :
                  RowsOf(job.view, last.content_type, last.content_id) =
                      {SignalRow(last.content_type, last.content_id, post_id,
                                 last.outcome.value, last.at)}

\* comment "c" ("fee ... monzo": 0.4, no question) under hybrid_min_score 0.9,
\* stored as the provider classified it
C7_Witness ==
    /\ last.set /\ last.method = "hybrid"
    /\ last.content_type = "comment" /\ last.content_id = "c"
    /\ last.response = ValidObject
    /\ \E s \in RowsOf(job.view, "comment", "c") :
          s.is_question /\ s.signal_score = 80 /\ s.detected_keywords = <<"isa">>

SameKey(s, t) == s.content_type = t.content_type /\ s.content_id = t.content_id

\* C8: the signals table holds at most one row per (content_type,
\* content_id); after an upsert that row carries the flags, score and
\* keywords of that call and the call's now() as collected_at, later than
\* the collected_at of the row it replaced.
C8_UpsertLatestWins ==
    /\ \A s, t \in signals : SameKey(s, t) => s = t
    /\ \A s, t \in job.view : SameKey(s, t) => s = t
    /\ (last.set /\ ~last.outcome.raised) =>
          /\ \A s \in RowsOf(job.view, last.content_type, last.content_id) :
                /\ s.is_question = last.outcome.value.is_question
                /\ s.asks_recommendation = last.outcome.value.asks_recommendation
                /\ s.mentions_cost = last.outcome.value.mentions_cost
                /\ s.mentions_platform = last.outcome.value.mentions_platform
                /\ s.signal_score = last.outcome.value.signal_score
                /\ s.detected_keywords = last.outcome.value.detected_keywords
                /\ s.collected_at = last.at
                /\ \A old \in RowsOf(signals, last.content_type, last.content_id) :
                      old.collected_at < s.collected_at
          /\ RowsOf(job.view, last.content_type, last.content_id) # {}

\* a second upsert of a key with a different result
C8_Witness ==
    /\ last.set /\ last.had_row /\ ~last.outcome.raised
    /\ \E old \in RowsOf(signals, last.content_type, last.content_id) :
          old.signal_score # last.outcome.value.signal_score

\* ORDER BY created_utc DESC NULLS LAST puts row r first among S
First(r, S) == r \in S /\ \A o \in S : ~Before(o, r)

\* C9: with force=false no item that already has a signals row for its
\* content_type is selected (so none is scored again); with force=true the
\* selection ignores the signals table: it starts with the most recent post
\* or comment of the subreddit, scored or not.
C9_ForceSelection ==
    /\ (last.set /\ ~last.force) => ~last.had_row
    /\ (job.phase = "posts" /\ job.posts_scored = 0 /\ job.force) =>
          /\ job.rows # <<>>
          /\ First(Head(job.rows), SelectPosts(posts, {}, job.subreddit, TRUE))
    /\ (job.phase = "comments" /\ job.comments_scored = 0 /\ job.force) =>
          /\ job.rows # <<>>
          /\ First(Head(job.rows),
                   SelectComments(posts, comments, {}, job.subreddit, TRUE))
    /\ (job.phase = "posts" /\ ~job.force) =>
          \A i \in 1..Len(job.rows) :
              RowsOf(signals, "post", job.rows[i].post_id) = {}
    /\ (job.phase = "comments" /\ ~job.force) =>
          \A i \in 1..Len(job.rows) :
              RowsOf(signals, "comment", job.rows[i].comment_id) = {}

\* a forced run scores an item that already has a row
C9_Witness ==
    last.set /\ last.force /\ last.had_row

\* the rows of `table` that immediately precede r: same cluster, an earlier
\* week, no row of the cluster in between
Preceding(table, r) ==
    {q \in table :
        /\ q.cluster_id = r.cluster_id
        /\ q.week_start < r.week_start
        /\ ~\E o \in table : /\ o.cluster_id = r.cluster_id
                             /\ q.week_start < o.week_start
                             /\ o.week_start < r.week_start}

\* C10: every row written by compute_weekly_trends whose cluster has a
\* preceding row with doc_count prior_count > 0 has growth_pct equal to
\* (doc_count - prior_count) / prior_count * 100 rounded to one decimal (the
\* multiple of 0.1 nearest to the quotient); a row after one of 10 documents
\* with 5 documents has -50.0, a row after one of 5 with 20 has 300.0
C10_GrowthPct ==
    \A r \in weekly_theme_stats : \A q \in Preceding(weekly_theme_stats, r) :
        q.doc_count > 0 =>
            /\ ~r.growth_pct.null
            /\ 2 * Abs(r.growth_pct.v * q.doc_count
                       - 1000 * (r.doc_count - q.doc_count)) <= q.doc_count
            /\ (q.doc_count = 10 /\ r.doc_count = 5) => r.growth_pct.v = 0 - 500
            /\ (q.doc_count = 5 /\ r.doc_count = 20) => r.growth_pct.v = 3000

\* a run has written weekly doc_counts 10, 5, 20 for cluster 0 with
\* growth_pct null, -50.0, 300.0
C10_Witness ==
    /\ \E c \in Callers : trend[c].phase = "count"
    /\ \E r1, r2, r3 \in weekly_theme_stats :
          /\ r1.cluster_id = 0 /\ r2.cluster_id = 0 /\ r3.cluster_id = 0
          /\ r1.week_start = 0 /\ r2.week_start = 7 /\ r3.week_start = 14
          /\ r1.doc_count = 10 /\ r2.doc_count = 5 /\ r3.doc_count = 20
          /\ r1.growth_pct = SqlNull
          /\ r2.growth_pct = SqlVal(0 - 500)
          /\ r3.growth_pct = SqlVal(3000)

\* C11: in every state of weekly_theme_stats a row's growth_pct is null if and
\* only if its cluster has no earlier-week row in the table or the preceding
\* row's doc_count is 0 (a zero baseline gives null, never 0 or infinity)
C11_NullGrowthIff ==
    /\ \A r \in weekly_theme_stats :
          r.growth_pct.null <=>
              \/ Preceding(weekly_theme_stats, r) = {}
              \/ \E q \in Preceding(weekly_theme_stats, r) : q.doc_count = 0
    /\ \A doc_count \in 0..3 : growth_pct(doc_count, SqlVal(0)) = SqlNull

\* a run has written a first row of a cluster (growth_pct null) and a later
\* row of the same cluster with a growth_pct
C11_Witness ==
    \E r, q \in weekly_theme_stats :
        /\ Preceding(weekly_theme_stats, q) = {}
        /\ q.growth_pct.null
        /\ q \in Preceding(weekly_theme_stats, r)
        /\ ~r.growth_pct.null
        /\ r.growth_pct.v = 0

\* the values of a table's rows without their computed_at
StatValues(table) ==
    {[week_start |-> r.week_start, cluster_id |-> r.cluster_id,
      cluster_label |-> r.cluster_label, doc_count |-> r.doc_count,
      signal_sum |-> r.signal_sum, avg_score |-> r.avg_score,
      growth_pct |-> r.growth_pct] : r \in table}

\* the posts inside the lookback window of a run on `day`
InWindow(day, lookback_weeks) ==
    {p \in posts : /\ p.created_utc # NullTime
                   /\ p.created_utc >= day - DaysPerWeek * lookback_weeks}

\* this step is the commit of a run of caller c that follows, with the same
\* lookback, the run of caller d (posts, signals, clusters and
\* cluster_membership do not change in SpecTrends)
SecondRun(c, d) ==
    /\ trend[c].phase = "idle"
    /\ trend'[c].phase = "count"
    /\ now > 0
    /\ trend[d].at = now
    /\ trend[d].lookback_weeks = trend'[c].lookback_weeks

\* C12 as stated: a second run in succession with the same lookback and
\* unchanged inputs leaves an identical weekly_theme_stats table
C12_Original ==
    [][\A c, d \in Callers :
          SecondRun(c, d) => weekly_theme_stats' = weekly_theme_stats]_vars

\* C12 amended: a second run in succession with the same lookback and
\* unchanged inputs, with the same posts inside its lookback window as the
\* first run had, leaves the same rows with the same values in every column
\* but computed_at
C12_Idempotent ==
    [][\A c, d \in Callers :
          (SecondRun(c, d)
           /\ InWindow(trend[d].day, trend[d].lookback_weeks)
               = InWindow(today, trend'[c].lookback_weeks))
          => StatValues(weekly_theme_stats') = StatValues(weekly_theme_stats)]_vars

\* two runs in succession with the same lookback, a week apart, have written
\* the same non-empty values
C12_Witness ==
    \E c, d \in Callers :
        /\ trend[d].at = 1 /\ trend[c].at = 2
        /\ trend[c].lookback_weeks = trend[d].lookback_weeks
        /\ trend[c].day > trend[d].day
        /\ weekly_theme_stats = trend[c].written
        /\ trend[c].written # trend[d].written
        /\ Cardinality(trend[c].written) >= 3
        /\ StatValues(trend[c].written) = StatValues(trend[d].written)

\* the (week_start, cluster_id) of the posts a run on `day` has to count:
\* inside the lookback window, member of a cluster that is not noise
EligibleKeys(day, lookback_weeks) ==
    {<<date_trunc_week(pm[1].created_utc), pm[2].cluster_id>> :
        pm \in {x \in InWindow(day, lookback_weeks) \X cluster_membership :
                  /\ x[2].content_type = "post"
                  /\ x[2].content_id = x[1].post_id
                  /\ x[2].cluster_id >= 0
                  /\ \E k \in clusters : k.cluster_id = x[2].cluster_id}}

\* C13: after a run's commit weekly_theme_stats holds exactly the rows that
\* run computed from the inputs and its lookback window: every row is one the
\* run wrote, none written by an earlier run survives, every eligible
\* (week_start, cluster_id) has a row and none has two
C13_ReplacesTable ==
    \A c \in Callers :
        (now > 0 /\ trend[c].at = now) =>
            /\ weekly_theme_stats = trend[c].written
            /\ \A r \in weekly_theme_stats : r.computed_at = now
            /\ {<<r.week_start, r.cluster_id>> : r \in weekly_theme_stats}
                = EligibleKeys(trend[c].day, trend[c].lookback_weeks)
            /\ \A r, q \in weekly_theme_stats :
                  (r.week_start = q.week_start /\ r.cluster_id = q.cluster_id)
                  => r = q

\* a second run with a shorter window has replaced a table that held a week
\* the second run does not cover
C13_Witness ==
    \E c, d \in Callers :
        /\ trend[d].at = 1 /\ trend[c].at = 2 /\ now = 2
        /\ weekly_theme_stats = trend[c].written
        /\ weekly_theme_stats # {}
        /\ \E o \in trend[d].written :
              \A r \in weekly_theme_stats : r.week_start # o.week_start

\* the posts whose cluster_membership is a noise cluster
NoisePosts ==
    {p \in posts : \E m \in cluster_membership :
        m.content_type = "post" /\ m.content_id = p.post_id /\ m.cluster_id < 0}

\* C14: no row of weekly_theme_stats has a negative cluster_id, and the posts
\* of the noise cluster contribute to no row: the values a run wrote are
\* those it computes when the noise posts, their memberships and their
\* signals are taken out of its inputs
C14_NoiseExcluded ==
    /\ \A r \in weekly_theme_stats : r.cluster_id >= 0
    /\ \A c \in Callers :
          (now > 0 /\ trend[c].at = now) =>
              StatValues(weekly_theme_stats)
              = StatValues(with_prior(
                    weekly_docs(posts \ NoisePosts,
                                {x \in signals : \A p \in NoisePosts :
                                                    x.content_id # p.post_id},
                                clusters,
                                {m \in cluster_membership : m.cluster_id >= 0},
                                trend[c].day, trend[c].lookback_weeks),
                    now))

\* a run has written a row for the week of a scored noise post that was
\* inside its window
C14_Witness ==
    \E c \in Callers, p \in NoisePosts :
        /\ now > 0 /\ trend[c].at = now
        /\ p \in InWindow(trend[c].day, trend[c].lookback_weeks)
        /\ ~p.score.null
        /\ \E x \in signals : x.content_type = "post" /\ x.content_id = p.post_id
        /\ \E r \in weekly_theme_stats :
              r.week_start = date_trunc_week(p.created_utc)

\* C15: a call that returns reports as rows_inserted the number of rows it
\* wrote and as weeks_computed the number of distinct week_start among those
\* rows, also when another run commits between its transaction and its
\* count query
C15_ReturnedCounts ==
    [][\A c \in Callers :
          (trend[c].phase = "count" /\ trend'[c].phase = "idle"
           /\ ~trends_returned'[c].raised)
          => /\ trends_returned'[c].rows_inserted = Cardinality(trend[c].written)
             /\ trends_returned'[c].weeks_computed
                = Cardinality({r.week_start : r \in trend[c].written})]_vars

\* the rows of the table a get_trending_themes call read that lie in its
\* window and belong to cluster cid
WindowRows(q, cid) ==
    {r \in q.table : /\ r.cluster_id = cid
                     /\ r.week_start >= q.day - DaysPerWeek * q.weeks}
TotalDocs(q, cid) == SumPairs({<<r, r.doc_count>> : r \in WindowRows(q, cid)})
\* the sum and the number of the non-null growth_pct of the cluster's rows
GrowthSum(q, cid) ==
    SumPairs({<<r, r.growth_pct.v>> : r \in {x \in WindowRows(q, cid) : ~x.growth_pct.null}})
GrowthCount(q, cid) == Cardinality({x \in WindowRows(q, cid) : ~x.growth_pct.null})
Returned(q) == {q.returned[i].cluster_id : i \in DOMAIN q.returned}

\* C16: get_trending_themes returns no cluster whose total_docs over the
\* rows in the window is below min_docs, whatever its growth, and returns no
\* cluster twice
C16_MinDocs ==
    query.fn = "get_trending_themes" =>
        /\ \A i \in DOMAIN query.returned :
              TotalDocs(query, query.returned[i].cluster_id) >= query.min_docs
        /\ \A i, j \in DOMAIN query.returned :
              query.returned[i].cluster_id = query.returned[j].cluster_id => i = j

\* a call with room left under its limit left out a cluster with fewer than
\* min_docs documents whose mean growth is above that of every cluster it
\* returned
C16_Witness ==
    /\ query.fn = "get_trending_themes"
    /\ query.returned # <<>>
    /\ Len(query.returned) < query.limit
    /\ \E r \in query.table :
          /\ r.cluster_id \notin Returned(query)
          /\ WindowRows(query, r.cluster_id) # {}
          /\ TotalDocs(query, r.cluster_id) < query.min_docs
          /\ GrowthCount(query, r.cluster_id) > 0
          /\ \A c \in Returned(query) :
                GrowthCount(query, c) > 0 =>
                    GrowthSum(query, c) * GrowthCount(query, r.cluster_id)
                    < GrowthSum(query, r.cluster_id) * GrowthCount(query, c)

\* trend_score of a cluster over the rows the call read, as the fraction
\* ScoreNum / ScoreDen in tenths: the mean of its non-null growth_pct, or 0
\* when it has none, plus half its total_docs
ScoreNum(q, cid) ==
    IF GrowthCount(q, cid) = 0
    THEN 5 * TotalDocs(q, cid)
    ELSE GrowthSum(q, cid) + 5 * TotalDocs(q, cid) * GrowthCount(q, cid)
ScoreDen(q, cid) == IF GrowthCount(q, cid) = 0 THEN 1 ELSE GrowthCount(q, cid)
ScoreBelow(q, a, b) == ScoreNum(q, a) * ScoreDen(q, b) < ScoreNum(q, b) * ScoreDen(q, a)
\* the clusters with rows in the window and at least min_docs documents
Qualifying(q) ==
    {r.cluster_id : r \in {x \in q.table :
        /\ x.week_start >= q.day - DaysPerWeek * q.weeks
        /\ TotalDocs(q, x.cluster_id) >= q.min_docs}}

\* C17: get_trending_themes returns at most `limit` clusters (all the
\* qualifying ones when they are fewer), in descending order of trend_score
\* = (avg_growth, or 0 when no week has a growth_pct) + total_docs * 0.5,
\* reported to two decimals, and no qualifying cluster it leaves out has a
\* higher trend_score than one it returns
C17_TopByTrendScore ==
    query.fn = "get_trending_themes" =>
        /\ Len(query.returned) <= query.limit
        /\ Len(query.returned) = Min(query.limit, Cardinality(Qualifying(query)))
        /\ \A i, j \in DOMAIN query.returned :
              i < j => ~ScoreBelow(query, query.returned[i].cluster_id,
                                   query.returned[j].cluster_id)
        /\ \A i \in DOMAIN query.returned :
              LET cid == query.returned[i].cluster_id
              IN  2 * Abs(query.returned[i].trend_score * ScoreDen(query, cid)
                          - 10 * ScoreNum(query, cid)) <= ScoreDen(query, cid)
        /\ \A c \in Qualifying(query) \ Returned(query) :
              \A d \in Returned(query) : ~ScoreBelow(query, d, c)

\* a call returned `limit` clusters, ranked a cluster without any growth_pct
\* (counted as 0) above a cluster of more documents whose growth is
\* negative, and left a qualifying cluster out
C17_Witness ==
    /\ query.fn = "get_trending_themes"
    /\ Len(query.returned) = query.limit
    /\ Qualifying(query) \ Returned(query) # {}
    /\ \E c \in Returned(query), d \in Qualifying(query) :
          /\ GrowthCount(query, c) = 0
          /\ GrowthCount(query, d) > 0 /\ GrowthSum(query, d) < 0
          /\ TotalDocs(query, d) > TotalDocs(query, c)
          /\ ScoreBelow(query, d, c)

\* C18: get_trending_themes reports as avg_growth the mean of the cluster's
\* non-null growth_pct in the window (to one decimal), and reports null
\* exactly when no week in the window has a growth_pct: a mean of 0 is
\* reported as 0
C18_AvgGrowthReported ==
    query.fn = "get_trending_themes" =>
        \A i \in DOMAIN query.returned :
            LET cid == query.returned[i].cluster_id
                reported == query.returned[i].avg_growth
            IN  /\ reported.null <=> GrowthCount(query, cid) = 0
                /\ ~reported.null =>
                      2 * Abs(reported.v * GrowthCount(query, cid)
                              - GrowthSum(query, cid)) <= GrowthCount(query, cid)


\* every request call_groq made was answered 429
OnlyRateLimited == \A i \in DOMAIN groq.requests : groq.requests[i] = "429"

\* what C19 says of a state: requests, waits, result and fallback
C19_Bounded ==
    /\ groq.phase \in {"call_groq", "done"} => Len(groq.requests) <= max_retries
    /\ \A i \in DOMAIN groq.waits :
          LET w == groq.waits[i]
          IN  /\ w.attempt = i - 1
              /\ w.time = IF w.retry_after.kind = "seconds"
                          THEN w.retry_after.v
                          ELSE Min(Pow2(w.attempt) * 2, BackoffCap)
    /\ groq.phase = "done" /\ groq.requests # <<>> /\ OnlyRateLimited
          => groq.result = ProviderNone
    /\ pc = "score_text_llm" /\ groq.result = ProviderNone
          => ret = [raised |-> FALSE, value |-> score_text(arg_text)]

\* C19: call_groq terminates: under repeated 429 responses it makes at most
\* max_retries (5) requests, waits before each next one for the retry-after
\* value when the header gives one and min(2^attempt * 2, 60) seconds
\* otherwise, then returns None, and score_text_llm returns the rule result.
C19_GroqTerminates == [](C19_Bounded) /\ <>(pc = "score_text_llm")

C19_Witness ==
    /\ pc = "score_text_llm"
    /\ Len(groq.requests) = max_retries
    /\ OnlyRateLimited
    /\ Len(groq.waits) = max_retries
    /\ \E i \in DOMAIN groq.waits : groq.waits[i].retry_after = Seconds(7)
    /\ groq.waits[4].time = 16 /\ groq.waits[5].time = 32
    /\ groq.result = ProviderNone
    /\ arg_text = Some(<<"which bank", "?">>)
    /\ ret = [raised |-> FALSE, value |-> score_text(arg_text)]

\* the failures the taxonomy calls transient
Transient == {"429", "timeout", "transport"}

\* C20: every transient provider failure of the LLM call (rate limiting,
\* timeout, transport error) is retried with bounded exponential backoff: a
\* call that has returned left no transient failure unanswered before its
\* max_retries requests were used up, and only then falls back to the rule
\* result.
C20_TransientRetried ==
    groq.phase = "done" =>
        \A i \in DOMAIN groq.requests :
            groq.requests[i] \in Transient /\ i < max_retries
                => /\ i < Len(groq.requests)
                   /\ i \in DOMAIN groq.waits
                   /\ groq.waits[i].time <= BackoffCap

\* the rows a running job has written: its upserts carry its now()
WrittenBy(j, content_type) ==
    {s \in j.view : s.content_type = content_type /\ s.collected_at = j.at}

\* C21: a provider or parse failure on one item never aborts score_signals:
\* every candidate the loops have handled has its signals row and is counted
\* in posts_scored / comments_scored, and a run with a supported method ends
\* with an exception only when the store raised.
C21_ItemFailureNeverAborts ==
    /\ job.phase # "idle" =>
          /\ job.posts_scored = Cardinality(WrittenBy(job, "post"))
          /\ job.comments_scored = Cardinality(WrittenBy(job, "comment"))
    /\ returned.raised # "" /\ ~(last.set /\ last.method = "bogus")
          => returned.raised = "store"

\* the signals row s carries exactly the result r of the run of caller d
FromWrite(s, d, r) ==
    /\ s.content_id = r.content_id
    /\ s.is_question = r.result.is_question
    /\ s.asks_recommendation = r.result.asks_recommendation
    /\ s.mentions_cost = r.result.mentions_cost
    /\ s.mentions_platform = r.result.mentions_platform
    /\ s.signal_score = r.result.signal_score
    /\ s.detected_keywords = r.result.detected_keywords
    /\ s.collected_at = tx[d].at

\* C22: when two score_signals runs score the same (content_type,
\* content_id) side by side, the committed table never holds two rows for the
\* key, and once a run that scored the key has committed there is exactly one
\* row for it, whose flags, score and keywords all are those of a single
\* committed write.
C22_ConcurrentUpsert ==
    /\ \A s1, s2 \in signals :
          s1.content_type = s2.content_type /\ s1.content_id = s2.content_id
             => s1 = s2
    /\ \A c \in Callers : tx[c].phase = "done" =>
          \A w \in tx[c].results :
             /\ Cardinality(RowsOf(signals, "post", w.content_id)) = 1
             /\ \A s \in RowsOf(signals, "post", w.content_id) :
                   \E d \in Callers :
                      /\ tx[d].phase = "done"
                      /\ \E r \in tx[d].results : FromWrite(s, d, r)

C22_Witness ==
    /\ tx["c1"].phase = "done" /\ tx["c2"].phase = "done"
    /\ tx["c2"].met = {"c1"}
    /\ \E r1 \in tx["c1"].results, r2 \in tx["c2"].results :
          /\ r1.content_id = "a" /\ r2.content_id = "a"
          /\ r1.result # r2.result
          /\ \E s \in signals : FromWrite(s, "c1", r1)

\* a step of one of the three readers
ReaderStep == query' # query
\* a step of score_signals
ScoreSignalsStep == tx' # tx \/ signals' # signals \/ job' # job
\* the step in which a compute_weekly_trends transaction commits
TrendsCommitStep ==
    \E c \in Callers : trend[c].phase = "idle" /\ trend'[c].phase = "count"
\* the step in which DELETE FROM clusters commits
ClustersDeletedStep == clusters # {} /\ clusters' = {}

\* C23 as stated: the readers change no table, score_signals never touches
\* weekly_theme_stats, and only compute_weekly_trends inserts into or deletes
\* from weekly_theme_stats.
C23_Original ==
    [][/\ ReaderStep => UNCHANGED <<posts, comments, signals, clusters,
                                    cluster_membership, weekly_theme_stats>>
       /\ ScoreSignalsStep => UNCHANGED weekly_theme_stats
       /\ weekly_theme_stats' # weekly_theme_stats => TrendsCommitStep]_vars

\* C23: the readers change no table and score_signals never touches
\* weekly_theme_stats; compute_weekly_trends is the only operation that runs
\* an INSERT or DELETE on weekly_theme_stats, and the only other change of
\* the table is the clustering run's DELETE FROM clusters, which empties it
\* through ON DELETE CASCADE.
C23_OnlyWriter ==
    [][/\ ReaderStep => UNCHANGED <<posts, comments, signals, clusters,
                                    cluster_membership, weekly_theme_stats>>
       /\ ScoreSignalsStep => UNCHANGED weekly_theme_stats
       /\ weekly_theme_stats' # weekly_theme_stats
             => TrendsCommitStep \/ ClustersDeletedStep
       /\ ClustersDeletedStep => weekly_theme_stats' = {}]_vars

C23_Witness ==
    /\ query.fn = "get_weekly_summary"
    /\ query.returned # <<>>
    /\ query.table # {}
    /\ weekly_theme_stats = {}
    /\ clusters = {}
    /\ tx["c1"].phase = "done"
    /\ signals # {}

\* C24: weekly rows are sparse: no row has doc_count 0 and every row's
\* (week, cluster) has an eligible post of the run that wrote it; the
\* growth_pct of a row is computed against the nearest earlier row of its
\* cluster in the table, however many calendar weeks earlier that row is.
C24_SparseWeeks ==
    /\ \A r \in weekly_theme_stats : r.doc_count >= 1
    /\ \A c \in Callers :
          (now > 0 /\ trend[c].at = now) =>
              \A r \in weekly_theme_stats :
                 <<r.week_start, r.cluster_id>>
                    \in EligibleKeys(trend[c].day, trend[c].lookback_weeks)
    /\ \A r \in weekly_theme_stats : \A q \in Preceding(weekly_theme_stats, r) :
          /\ ~r.growth_pct.null
          /\ 2 * Abs(r.growth_pct.v * q.doc_count
                     - 1000 * (r.doc_count - q.doc_count)) <= q.doc_count

\* a cluster has rows for week 0 and week 14 and none for week 7, and the
\* later row's growth_pct is computed against the row of week 0
C24_Witness ==
    \E r, q \in weekly_theme_stats :
        /\ q \in Preceding(weekly_theme_stats, r)
        /\ r.week_start - q.week_start = 2 * DaysPerWeek
        /\ r.doc_count = 2 /\ q.doc_count = 1
        /\ r.growth_pct = SqlVal(1000)
        /\ \E o \in weekly_theme_stats :
              o.cluster_id # r.cluster_id /\ o.week_start = q.week_start + DaysPerWeek

\* the labels of the true flags of v, in the fixed order
FlagLabels(v) ==
    LET flag(k) == CASE k = "question" -> v.is_question
                     [] k = "recommendation" -> v.asks_recommendation
                     [] k = "cost" -> v.mentions_cost
                     [] k = "platform" -> v.mentions_platform
    IN  SelectSeq(<<"question", "recommendation", "cost", "platform">>, flag)
\* the items of a list that are not empty
NonEmptyItems(l) == LET kept(k) == k # "" IN SelectSeq(l, kept)
\* score_text_llm returned the parsed response
Parsed == pc = "score_text_llm" /\ CallsLLM(arg_text) /\ ~Unparseable(arg_response)
                                /\ ~ret.raised

\* C25 as stated: detected_keywords is the labels of the true flags for
\* score_text, and for a parsed response whose detected_keywords is absent or
\* empty; a non-empty provider list is kept as given.
C25_Original ==
    LET kw == arg_response.detected_keywords
        v == ret.value
    IN  /\ (pc = "score_text_llm" /\ ~Parsed /\ ~ret.raised)
              => v.detected_keywords = FlagLabels(v)
        /\ (Parsed /\ (kw.t = "absent" \/ (kw.t = "list" /\ kw.l = <<>>)))
              => v.detected_keywords = FlagLabels(v)
        /\ (Parsed /\ kw.t = "list" /\ kw.l # <<>>)
              => v.detected_keywords = kw.l

\* C25: detected_keywords is the labels of the true flags, in the fixed
\* order, for score_text and for a parsed response whose detected_keywords is
\* absent or empty; a non-empty provider list is kept without its empty
\* items, and when no item is left the labels of the flags are used.
C25_KeywordsFromFlags ==
    LET kw == arg_response.detected_keywords
        v == ret.value
    IN  /\ (pc = "score_text_llm" /\ ~Parsed /\ ~ret.raised)
              => v.detected_keywords = FlagLabels(v)
        /\ (Parsed /\ (kw.t = "absent" \/ (kw.t = "list" /\ kw.l = <<>>)))
              => v.detected_keywords = FlagLabels(v)
        /\ (Parsed /\ kw.t = "list" /\ kw.l # <<>>)
              => v.detected_keywords =
                    IF NonEmptyItems(kw.l) = <<>> THEN FlagLabels(v)
                                                  ELSE NonEmptyItems(kw.l)

\* a parsed response with the list [""] and the flags question and cost
C25_Witness ==
    /\ Parsed
    /\ arg_response.detected_keywords = JList(<<"">>)
    /\ ret.value.is_question /\ ~ret.value.asks_recommendation
    /\ ret.value.mentions_cost /\ ~ret.value.mentions_platform
    /\ ret.value.detected_keywords = <<"question", "cost">>

\* C26: score_signals is all-or-nothing: the step in which a run ends with an
\* exception (of the store, of an unsupported method) leaves the signals
\* table as it was, and the table changes only in the step in which a run
\* commits, to that run's view.
C26_AllOrNothing ==
    [][/\ (job.phase # "idle" /\ returned'.raised # "") => signals' = signals
       /\ signals' # signals =>
             /\ job.phase # "idle" /\ job'.phase = "idle"
             /\ returned'.raised = ""
             /\ signals' = job.view]_vars

\* a run without force has raised on comment c, after its upsert of comment
\* a, and no row is left
C26_Witness ==
    /\ returned.raised = "scoring"
    /\ last.set /\ ~last.force
    /\ last.content_type = "comment" /\ last.content_id = "c"
    /\ signals = {}

\* the table is the complete output of the latest committed run (or empty,
\* before the first one)
CompleteTable ==
    \/ now = 0 /\ weekly_theme_stats = {}
    \/ \E c \in Callers : trend[c].at = now /\ weekly_theme_stats = trend[c].written

\* C27: DELETE and INSERT of compute_weekly_trends are one transaction: the
\* step in which a run fails leaves weekly_theme_stats with the rows it had,
\* and what a reader reads is the complete table of the latest committed run,
\* never the table after the DELETE alone or part of the INSERT.
C27_DeleteInsertAtomic ==
    [][/\ (trends_returned' # trends_returned
           /\ \E c \in Callers : trends_returned'[c].raised
                                 /\ trends_returned'[c] # trends_returned[c])
             => weekly_theme_stats' = weekly_theme_stats
       /\ query' # query =>
             /\ query'.table = weekly_theme_stats
             /\ CompleteTable]_vars

\* after a committed run a later call has failed, and a reader has read the
\* rows of the committed run
C27_Witness ==
    /\ trends_returned["c1"].raised
    /\ trend["c1"].phase = "idle" /\ trend["c1"].at = 1
    /\ Cardinality(weekly_theme_stats) >= 3
    /\ weekly_theme_stats = trend["c1"].written
    /\ query.fn = "get_trending_themes"
    /\ query.table = weekly_theme_stats
    /\ query.returned # <<>>

\* C28: whenever a hybrid iteration enters score_text_llm, the rule result
\* of its text has is_question and asks_recommendation false and a score in
\* {0.0, 0.2, 0.4} below hybrid_min_score; with hybrid_min_score <= 0 hybrid
\* never enters it; and when the provider fails, the hybrid result is the
\* result of method "rules".
C28_HybridWeakOnly ==
    (last.set /\ last.method = "hybrid") =>
        LET rule_result == score_text(last.text)
        IN  /\ last.outcome.entered_llm =>
                  /\ ~rule_result.is_question
                  /\ ~rule_result.asks_recommendation
                  /\ rule_result.signal_score \in {0, 20, 40}
                  /\ rule_result.signal_score < last.hybrid_min_score
            /\ last.hybrid_min_score <= 0 =>
                  ~last.outcome.entered_llm /\ ~last.outcome.called_llm
            /\ (last.outcome.called_llm /\ last.response = ProviderNone) =>
                  /\ ~last.outcome.raised
                  /\ last.outcome.value = rule_result

\* a hybrid iteration on "fee ... monzo" (rule score 0.4, threshold 0.9)
\* whose provider call failed
C28_Witness ==
    /\ last.set /\ last.method = "hybrid" /\ last.hybrid_min_score = 90
    /\ last.outcome.called_llm /\ last.response = ProviderNone
    /\ last.outcome.value.signal_score = 40
    /\ last.outcome.value.detected_keywords = <<"cost", "platform">>
    /\ \E s \in job.view : /\ s.content_id = last.content_id
                           /\ s.content_type = last.content_type
                           /\ s.signal_score = 40

\* the posts and comments of the job's subreddit that have no signals row
UnscoredPosts(table) == SelectPosts(posts, table, job.subreddit, FALSE)
UnscoredComments(table) ==
    SelectComments(posts, comments, table, job.subreddit, FALSE)
\* a non-forced run of a supported method ends without a storage failure
RunEnds ==
    /\ job.phase # "idle" /\ job'.phase = "idle"
    /\ ~job.force
    /\ job.method \in {"rules", "llm", "hybrid"}
    /\ returned'.raised # "store"
\* what the ended run did to the unscored items of its scope
RunProgress ==
    /\ job.scope \in {"posts", "both"} =>
          LET new == UnscoredPosts(signals) \ UnscoredPosts(signals')
          IN  /\ Cardinality(new) = returned'.posts_scored
              /\ returned'.posts_scored >= Min(1, Cardinality(UnscoredPosts(signals)))
              /\ \A p \in new : \A o \in UnscoredPosts(signals') : ~Before(o, p)
    /\ job.scope \in {"comments", "both"} =>
          LET new == UnscoredComments(signals) \ UnscoredComments(signals')
          IN  /\ Cardinality(new) = returned'.comments_scored
              /\ returned'.comments_scored
                   = Min(job.limit_comments, Cardinality(UnscoredComments(signals)))
              /\ \A c \in new : \A o \in UnscoredComments(signals') : ~Before(o, c)
    /\ (UnscoredPosts(signals) = {} /\ UnscoredComments(signals) = {}) =>
          /\ signals' = signals
          /\ returned'.posts_scored = 0 /\ returned'.comments_scored = 0

\* C29: with fixed content and no storage failure every non-forced run of
\* score_signals ends by returning its counts, having scored per content type
\* of its scope min(limit, number still unscored) items, the most recently
\* created first, so that repeated runs score every item; a run that finds
\* nothing unscored scores 0 items and changes no row.
C29_RunsScoreAll == [][RunEnds => (returned'.raised = "" /\ RunProgress)]_vars

\* the posts a run on `day` has to count for cluster_id in the week starting
\* week_start: members of the cluster as posts, created in that week, inside
\* the lookback window
CountedPosts(day, lookback_weeks, week_start, cluster_id) ==
    {p \in InWindow(day, lookback_weeks) :
        /\ date_trunc_week(p.created_utc) = week_start
        /\ \E cm \in cluster_membership : /\ cm.content_type = "post"
                                          /\ cm.content_id = p.post_id
                                          /\ cm.cluster_id = cluster_id}
\* the signal_score of a post, 0 for a post without a signals row
ScoreOfPost(p) ==
    LET hit == {s \in signals : s.content_type = "post" /\ s.content_id = p.post_id}
    IN  IF hit = {} THEN 0 ELSE (CHOOSE s \in hit : TRUE).signal_score
RECURSIVE SumOfScores(_)
SumOfScores(post_set) ==
    IF post_set = {} THEN 0
    ELSE LET p == CHOOSE x \in post_set : TRUE
         IN  ScoreOfPost(p) + SumOfScores(post_set \ {p})

\* C30: after a run's commit every row of weekly_theme_stats has a doc_count
\* of at least 1 that is the number of posts of its cluster (memberships of
\* content_type 'post', never of comments) created in its week inside the
\* lookback window, whether or not the posts have a signals row, and its
\* signal_sum is the sum of these posts' signal_score, 0 for an unscored post.
C30_DocCount ==
    \A c \in Callers :
        (now > 0 /\ trend[c].at = now) =>
            \A r \in weekly_theme_stats :
                LET counted == CountedPosts(trend[c].day, trend[c].lookback_weeks,
                                            r.week_start, r.cluster_id)
                IN  /\ r.doc_count >= 1
                    /\ r.doc_count = Cardinality(counted)
                    /\ r.signal_sum = SumOfScores(counted)

\* a row counts two posts, one scored above 0 and one unscored, of a cluster
\* that also has a comment as member whose id has a scored comment
C30_Witness ==
    \E c \in Callers :
        /\ now > 0 /\ trend[c].at = now
        /\ \E r \in weekly_theme_stats :
              LET counted == CountedPosts(trend[c].day, trend[c].lookback_weeks,
                                          r.week_start, r.cluster_id)
              IN  /\ r.doc_count = 2
                  /\ r.signal_sum > 0
                  /\ \E p \in counted : ScoreOfPost(p) > 0
                  /\ \E p \in counted :
                        ~\E s \in signals : s.content_type = "post"
                                            /\ s.content_id = p.post_id
                  /\ \E cm \in cluster_membership :
                        /\ cm.content_type = "comment"
                        /\ cm.cluster_id = r.cluster_id
                        /\ \E s \in signals : s.content_type = "comment"
                                              /\ s.content_id = cm.content_id

=============================================================================
